---- MODULE Spec2Model ----
(***************************************************************************)
(* OpenRouter free-model monitor: the scheduled handler (worker/index.js)  *)
(* and ModelMonitor (worker/monitor.js) as a state machine over the        *)
(* Cloudflare KV namespace, the catalog API and the Bark push endpoint.    *)
(*                                                                         *)
(* JavaScript strings that the code inspects are tuples of one-character   *)
(* strings; JavaScript values are records [t, s, n] with t one of          *)
(* "undef", "str", "num".  NaN is the field nan of a parse result.         *)
(***************************************************************************)
EXTENDS Integers, Sequences, FiniteSets, TLC

VARIABLES clock, env, kv, kvOld, run, starts, lastAcceptT, overlapped, lastPut, pin, pout

vars == <<clock, env, kv, kvOld, run, starts, lastAcceptT, overlapped, lastPut, pin, pout>>

(***************************************************************************)
(* Bounds of the model                                                     *)
(***************************************************************************)
MaxTicks == 2
MaxStarts == 3
MaxLen == 2

(***************************************************************************)
(* Program constants                                                       *)
(***************************************************************************)
DefaultIntervalMinutes == 5
MinIntervalMinutes == 1
MaxIntervalMinutes == 60
TickMs == 60000
\* the first time any invocation observes: positive, as Date.now() is
ClockStart == TickMs + 1001

Procs == {"p1", "p2"}

(***************************************************************************)
(* JavaScript values                                                       *)
(***************************************************************************)
Undef == [t |-> "undef", s |-> <<>>, n |-> 0]
Str(chars) == [t |-> "str", s |-> chars, n |-> 0]
Num(k) == [t |-> "num", s |-> <<>>, n |-> k]

Truthy(v) ==
  CASE v.t = "undef" -> FALSE
    [] v.t = "str" -> Len(v.s) > 0
    [] v.t = "num" -> v.n # 0

Digits == <<"0", "1", "2", "3", "4", "5", "6", "7", "8", "9">>

IsDigit(c) == \E d \in 1..10 : Digits[d] = c

DigitVal(c) == (CHOOSE d \in 1..10 : Digits[d] = c) - 1

RECURSIVE NatToChars(_)
NatToChars(k) ==
  IF k < 10 THEN <<Digits[k + 1]>>
  ELSE NatToChars(k \div 10) \o <<Digits[(k % 10) + 1]>>

\* String(v) for the values the model uses
ToChars(v) ==
  CASE v.t = "str" -> v.s
    [] v.t = "num" -> IF v.n < 0 THEN <<"-">> \o NatToChars(0 - v.n) ELSE NatToChars(v.n)
    [] v.t = "undef" -> <<"u", "n", "d", "e", "f", "i", "n", "e", "d">>

RECURSIVE SkipWs(_, _)
SkipWs(s, i) == IF i <= Len(s) /\ s[i] = " " THEN SkipWs(s, i + 1) ELSE i

RECURSIVE DigitsEnd(_, _)
DigitsEnd(s, i) == IF i <= Len(s) /\ IsDigit(s[i]) THEN DigitsEnd(s, i + 1) ELSE i

\* value of the digits s[i..j-1]
RECURSIVE DigitsVal(_, _, _)
DigitsVal(s, i, j) ==
  IF j <= i THEN 0 ELSE DigitsVal(s, i, j - 1) * 10 + DigitVal(s[j - 1])

\* parseInt(v, 10): leading blanks, an optional sign, then the longest run of
\* digits; NaN when there is no digit
ParseInt(v) ==
  LET s == ToChars(v)
      a == SkipWs(s, 1)
      neg == a <= Len(s) /\ s[a] = "-"
      b == IF a <= Len(s) /\ s[a] \in {"-", "+"} THEN a + 1 ELSE a
      e == DigitsEnd(s, b)
      m == DigitsVal(s, b, e)
  IN IF e = b THEN [nan |-> TRUE, n |-> 0]
     ELSE [nan |-> FALSE, n |-> IF neg THEN 0 - m ELSE m]

\* parseFloat(v): as parseInt, with an optional fraction; the value is
\* m / 10^e (negated when neg).  Exponent notation is not among the inputs.
ParseFloat(v) ==
  LET s == ToChars(v)
      a == SkipWs(s, 1)
      neg == a <= Len(s) /\ s[a] = "-"
      b == IF a <= Len(s) /\ s[a] \in {"-", "+"} THEN a + 1 ELSE a
      e == DigitsEnd(s, b)
      dot == e <= Len(s) /\ s[e] = "."
      f == IF dot THEN DigitsEnd(s, e + 1) ELSE e
      nfrac == IF dot THEN f - (e + 1) ELSE 0
  IN IF e = b /\ nfrac = 0 THEN [nan |-> TRUE, m |-> 0, e |-> 0, neg |-> FALSE]
     ELSE [nan |-> FALSE,
           m |-> DigitsVal(s, b, e) * 10 ^ nfrac
                 + (IF dot THEN DigitsVal(s, e + 1, f) ELSE 0),
           e |-> nfrac, neg |-> neg]

IsZero(pf) == ~pf.nan /\ pf.m = 0

EndsWith(s, suffix) ==
  /\ Len(s) >= Len(suffix)
  /\ SubSeq(s, Len(s) - Len(suffix) + 1, Len(s)) = suffix

(***************************************************************************)
(* Timestamps: new Date(ms).toISOString() and Date.parse                   *)
(***************************************************************************)
NullVal == [t |-> "null"]
Garbage == [t |-> "garbage"]

\* the fields of the ISO-8601 text: whole minutes since the epoch (date, hour
\* and minute fields), seconds, milliseconds
ToISOString(ms) ==
  [t |-> "iso", min |-> ms \div 60000, sec |-> (ms % 60000) \div 1000, msec |-> ms % 1000]

DateParse(v) ==
  IF v.t = "iso"
  THEN [nan |-> FALSE, n |-> (v.min * 60 + v.sec) * 1000 + v.msec]
  ELSE [nan |-> TRUE, n |-> 0]

(***************************************************************************)
(* The catalog: the entries the external API can return                   *)
(***************************************************************************)
Free5 == <<":", "f", "r", "e", "e">>

NoPricing == [present |-> FALSE, prompt |-> Undef, completion |-> Undef]
Pricing(p, c) == [present |-> TRUE, prompt |-> p, completion |-> c]

Items == <<
  [id |-> <<"a">> \o Free5, name |-> <<"A">>, pricing |-> Pricing(Str(<<"0", ".", "5">>), Str(<<"0", ".", "5">>))],
  [id |-> <<"b">> \o Free5, name |-> <<>>,    pricing |-> NoPricing],
  [id |-> <<"c">> \o Free5, name |-> <<"C">>, pricing |-> Pricing(Str(<<"0">>), Str(<<"0">>))],
  [id |-> <<"d">>,          name |-> <<"D">>, pricing |-> Pricing(Str(<<"0">>), Str(<<"0">>))],
  [id |-> <<"e">>,          name |-> <<"E">>,   pricing |-> Pricing(Str(<<"0", ".", "5">>), Str(<<"0">>))],
  [id |-> <<"f">>,          name |-> <<"F">>,   pricing |-> NoPricing],
  [id |-> <<"d">>,          name |-> <<"D","2">>, pricing |-> Pricing(Num(0), Undef)],
  [id |-> <<"g">>,          name |-> <<"G">>,   pricing |-> Pricing(Str(<<"a", "b", "c">>), Str(<<"0">>))],
  [id |-> <<"d">>,          name |-> <<"D","3">>, pricing |-> Pricing(Num(1), Str(<<"0", ".", "0">>))]
>>

ItemKeys == 1..Len(Items)

\* the catalogs a fetch can return in the monitoring specification
Catalogs == {<<1, 2, 6>>, <<2, 3, 6>>, <<7, 8, 1>>}

(***************************************************************************)
(* ModelMonitor.identifyFreeModels                                         *)
(***************************************************************************)
\* mutant: no default for a missing price
OrZeroNone(v) == v

\* x || '0'
OrZero(v) == IF Truthy(v) THEN v ELSE Str(<<"0">>)

\* the callback of models.filter
IsFree(model) ==
  IF Len(model.id) > 0 /\ EndsWith(model.id, Free5) THEN TRUE
  ELSE IF model.pricing.present
       THEN /\ IsZero(ParseFloat(OrZero(model.pricing.prompt)))
            /\ IsZero(ParseFloat(OrZero(model.pricing.completion)))
       ELSE FALSE

IsFreeModel(k) == IsFree(Items[k])

\* mutant: the frontend looks at the suffix only
isFreeModelSuffixOnly(model) == Len(model.id) > 0 /\ EndsWith(model.id, Free5)

\* OpenRouterMonitor.isFreeModel of the page script
isFreeModel(model) ==
  IF Len(model.id) > 0 /\ EndsWith(model.id, Free5) THEN TRUE
  ELSE IF model.pricing.present
       THEN LET promptPrice == ParseFloat(OrZero(model.pricing.prompt))
                completionPrice == ParseFloat(OrZero(model.pricing.completion))
            IN IsZero(promptPrice) /\ IsZero(completionPrice)
       ELSE FALSE

identifyFreeModels(models) == SelectSeq(models, IsFreeModel)

(***************************************************************************)
(* ModelMonitor.detectAndNotifyChanges: the two filters                    *)
(***************************************************************************)
IdSet(models) == {Items[models[i]].id : i \in 1..Len(models)}

\* mutant: entries compared as objects, not by id
AddedModelsByObject(previousFreeModels, currentFreeModels) ==
  LET previous == {previousFreeModels[i] : i \in 1..Len(previousFreeModels)}
      NotPrevious(k) == k \notin previous
  IN SelectSeq(currentFreeModels, NotPrevious)

AddedModels(previousFreeModels, currentFreeModels) ==
  LET previousIds == IdSet(previousFreeModels)
      NotPrevious(k) == Items[k].id \notin previousIds
  IN SelectSeq(currentFreeModels, NotPrevious)

\* mutant: the removed entries listed latest first
RemovedModelsReversed(previousFreeModels, currentFreeModels) ==
  LET currentIds == IdSet(currentFreeModels)
      NotCurrent(k) == Items[k].id \notin currentIds
      kept == SelectSeq(previousFreeModels, NotCurrent)
  IN [i \in 1..Len(kept) |-> kept[Len(kept) + 1 - i]]

RemovedModels(previousFreeModels, currentFreeModels) ==
  LET currentIds == IdSet(currentFreeModels)
      NotCurrent(k) == Items[k].id \notin currentIds
  IN SelectSeq(previousFreeModels, NotCurrent)

\* mutant: the length test dropped
HasChangesAlways(added, removed) == TRUE

HasChanges(added, removed) == Len(added) > 0 \/ Len(removed) > 0

(***************************************************************************)
(* scheduled(): the monitoring interval and the throttle                   *)
(***************************************************************************)
Max2(a, b) == IF a > b THEN a ELSE b
Min2(a, b) == IF a < b THEN a ELSE b

NoSettings == [isNull |-> TRUE, monitorInterval |-> Undef, barkBaseUrl |-> ""]
Settings(mi, url) == [isNull |-> FALSE, monitorInterval |-> mi, barkBaseUrl |-> url]

(***************************************************************************)
(* JSON.stringify and JSON.parse of the two stored objects.  The text of an *)
(* object is the function from the member names it has to the texts of     *)
(* their values: JSON.stringify leaves out a member whose value is         *)
(* undefined, writes a string in quotes and a number as its digits.        *)
(***************************************************************************)
ValueText(v) == [q |-> v.t = "str", c |-> ToChars(v)]

TextValue(x) == IF x.q THEN Str(x.c) ELSE Num(ParseInt(Str(x.c)).n)

PricingText(pricing) ==
  [key \in {k \in {"prompt", "completion"} : pricing[k].t # "undef"} |->
     ValueText(pricing[key])]

ItemText(model) ==
  LET keys == {"id"} \cup (IF Len(model.name) > 0 THEN {"name"} ELSE {})
                     \cup (IF model.pricing.present THEN {"pricing"} ELSE {})
  IN [key \in keys |->
        CASE key = "id" -> ValueText(Str(model.id))
          [] key = "name" -> ValueText(Str(model.name))
          [] OTHER -> PricingText(model.pricing)]

PriceOfText(text, key) == IF key \in DOMAIN text THEN TextValue(text[key]) ELSE Undef

ItemOfText(text) ==
  [id |-> IF "id" \in DOMAIN text THEN text.id.c ELSE <<>>,
   name |-> IF "name" \in DOMAIN text THEN text.name.c ELSE <<>>,
   pricing |-> IF "pricing" \in DOMAIN text
               THEN Pricing(PriceOfText(text.pricing, "prompt"),
                            PriceOfText(text.pricing, "completion"))
               ELSE NoPricing]

\* the model names a catalog entry by its place in Items
ItemKey(model) ==
  LET found == {k \in ItemKeys : Items[k] = model}
  IN IF found = {} THEN 0 ELSE CHOOSE k \in found : TRUE

ItemsText(models) == [i \in 1..Len(models) |-> ItemText(Items[models[i]])]

ItemsOfText(texts) == [i \in 1..Len(texts) |-> ItemKey(ItemOfText(texts[i]))]

\* {timestamp, totalModels, freeModels, allModels}
SnapshotText(data) ==
  LET keys == {"timestamp", "totalModels", "allModels"}
              \cup (IF data.hasFreeModels THEN {"freeModels"} ELSE {})
  IN [key \in keys |->
        CASE key = "timestamp" -> data.timestamp
          [] key = "totalModels" -> ValueText(Num(data.totalModels))
          [] key = "freeModels" -> ItemsText(data.freeModels)
          [] OTHER -> ItemsText(data.allModels)]

SnapshotOfText(text) ==
  [isNull |-> FALSE,
   hasFreeModels |-> "freeModels" \in DOMAIN text,
   timestamp |-> text.timestamp,
   totalModels |-> TextValue(text.totalModels).n,
   freeModels |-> IF "freeModels" \in DOMAIN text THEN ItemsOfText(text.freeModels) ELSE <<>>,
   allModels |-> ItemsOfText(text.allModels)]

\* {monitorInterval, barkBaseUrl, lastUpdated}, or the text 'null'
SettingsText(settings) ==
  IF settings.isNull THEN [null |-> TRUE]
  ELSE LET keys == {"lastUpdated"}
                   \cup (IF settings.monitorInterval.t # "undef" THEN {"monitorInterval"} ELSE {})
                   \cup (IF settings.barkBaseUrl # "" THEN {"barkBaseUrl"} ELSE {})
       IN [key \in keys |->
             CASE key = "monitorInterval" -> ValueText(settings.monitorInterval)
               [] key = "barkBaseUrl" -> settings.barkBaseUrl
               [] OTHER -> "lastUpdated"]

SettingsOfText(text) ==
  IF "null" \in DOMAIN text THEN NoSettings
  ELSE Settings(IF "monitorInterval" \in DOMAIN text
                THEN TextValue(text.monitorInterval) ELSE Undef,
                IF "barkBaseUrl" \in DOMAIN text THEN text.barkBaseUrl ELSE "")

JsonStringify(obj) ==
  [t |-> "json",
   v |-> IF "allModels" \in DOMAIN obj THEN SnapshotText(obj) ELSE SettingsText(obj)]

\* JSON.parse throws on text that is no JSON document
JsonParses(raw) == raw.t = "json"

JsonParse(raw) ==
  IF "allModels" \in DOMAIN raw.v THEN SnapshotOfText(raw.v) ELSE SettingsOfText(raw.v)

EnvInterval(envValue) ==
  IF Truthy(envValue) /\ ~ParseInt(envValue).nan
  THEN ParseInt(envValue).n
  ELSE DefaultIntervalMinutes

StoredInterval(settingsRaw, fallback) ==
  IF settingsRaw.t # "null" /\ JsonParses(settingsRaw)
  THEN LET settings == JsonParse(settingsRaw) IN
       IF ~settings.isNull /\ Truthy(settings.monitorInterval)
          /\ ~ParseInt(settings.monitorInterval).nan
       THEN ParseInt(settings.monitorInterval).n
       ELSE fallback
  ELSE fallback

Clamp(x) == Min2(Max2(x, MinIntervalMinutes), MaxIntervalMinutes)

IntervalMinutes(envValue, settingsRaw) ==
  Clamp(StoredInterval(settingsRaw, EnvInterval(envValue)))

IntervalMs(intervalMinutes) == intervalMinutes * 60 * 1000

\* mutant: a value that does not parse discards what the loop has found
FoldLastRunStrict(acc, value) ==
  IF value.t = "null" THEN acc
  ELSE LET parsed == DateParse(value) IN
       IF parsed.nan THEN 0
       ELSE IF acc = 0 \/ parsed.n > acc THEN parsed.n ELSE acc

\* the loop over [lastTriggerRaw, lastUpdateRaw]; 0 stands for the
\* undefined lastRunTimestamp (the code tests it by truthiness)
FoldLastRun(acc, value) ==
  IF value.t = "null" THEN acc
  ELSE LET parsed == DateParse(value) IN
       IF ~parsed.nan /\ (acc = 0 \/ parsed.n > acc) THEN parsed.n ELSE acc

\* mutant: only last_monitor_trigger is consulted
LastRunTimestampTriggerOnly(lastTriggerRaw, lastUpdateRaw) ==
  FoldLastRun(0, lastTriggerRaw)

\* mutant: only last_update is consulted
LastRunTimestampUpdateOnly(lastTriggerRaw, lastUpdateRaw) ==
  FoldLastRun(0, lastUpdateRaw)

LastRunTimestamp(lastTriggerRaw, lastUpdateRaw) ==
  FoldLastRun(FoldLastRun(0, lastTriggerRaw), lastUpdateRaw)

\* mutant: a trigger is skipped whenever a last run is known
SkipRunAnyPrior(now, lastRunTimestamp, intervalMs) == lastRunTimestamp # 0

\* mutant: the comparison of elapsed and intervalMs made inclusive
SkipRunInclusive(now, lastRunTimestamp, intervalMs) ==
  lastRunTimestamp # 0 /\ now - lastRunTimestamp <= intervalMs

SkipRun(now, lastRunTimestamp, intervalMs) ==
  lastRunTimestamp # 0 /\ now - lastRunTimestamp < intervalMs

(***************************************************************************)
(* State of one handler invocation (a Worker execution context)            *)
(***************************************************************************)
NoResult == [t |-> "none", success |-> FALSE, error |-> "", totalModels |-> 0, freeModels |-> 0]
Skipped == [NoResult EXCEPT !.t = "skipped"]
Caught(msg) == [NoResult EXCEPT !.t = "caught", !.error = msg]
Rejected(msg) == [NoResult EXCEPT !.t = "rejected", !.error = msg]
SuccessResponse(total, free) ==
  [t |-> "response", success |-> TRUE, error |-> "", totalModels |-> total, freeModels |-> free]
ErrorResponse(msg) == [NoResult EXCEPT !.t = "response", !.error = msg]

NoPrevious == [isNull |-> TRUE, hasFreeModels |-> FALSE, timestamp |-> NullVal,
               totalModels |-> 0, freeModels |-> <<>>, allModels |-> <<>>]

Snapshot(ts, models, free) ==
  [isNull |-> FALSE, hasFreeModels |-> TRUE, timestamp |-> ts,
   totalModels |-> Len(models), freeModels |-> free, allModels |-> models]

IdleRun ==
  [kind |-> "idle", pc |-> "idle", id |-> 0, intervalMinutes |-> 0,
   seenTrigger |-> NullVal, seenUpdate |-> NullVal, fresh |-> TRUE,
   now |-> 0, prevAcceptT |-> 0, accepted |-> FALSE,
   models |-> <<>>, previousData |-> NoPrevious, data |-> NoPrevious,
   added |-> <<>>, removed |-> <<>>, diffed |-> FALSE,
   barkUrl |-> "", originalBarkUrl |-> "", testOriginalBarkUrl |-> "", error |-> "",
   result |-> NoResult, notifs |-> <<>>, writes |-> {}, fetches |-> 0,
   fetchFailed |-> FALSE, loadFailed |-> FALSE, storeFailed |-> FALSE,
   settingsFailed |-> FALSE, notifyFailed |-> FALSE, handler |-> "running",
   before |-> [models_data |-> NullVal, last_update |-> NullVal,
               last_monitor_trigger |-> NullVal]]

EnvBarkUrl == "https://env.bark/"
StoredBarkUrl == "https://stored.bark/"

\* deployments: the environment bindings and the stored app_settings
Configs == {
  [env |-> [MONITOR_INTERVAL_MINUTES |-> Str(<<"2">>), BARK_API_URL |-> EnvBarkUrl],
   settings |-> NullVal],
  [env |-> [MONITOR_INTERVAL_MINUTES |-> Undef, BARK_API_URL |-> ""],
   settings |-> JsonStringify(Settings(Num(1), StoredBarkUrl))],
  [env |-> [MONITOR_INTERVAL_MINUTES |-> Str(<<"9", "9">>), BARK_API_URL |-> ""],
   settings |-> Garbage]
}

\* the invocation that made the latest put of each of the two snapshot keys
\* (0: none made in this behaviour)
NoPut == [models_data |-> 0, last_update |-> 0]

EmptyKv == [app_settings |-> NullVal, last_monitor_trigger |-> NullVal,
            last_update |-> NullVal, models_data |-> NullVal]

\* What surrounds a run in a specification: the invocations that can be in
\* flight at the same time and how many are made in all, the catalogs the API
\* returns, its failures, the failures of the push endpoint, whether a KV
\* operation can throw, and whether a KV read can miss the latest write.
FullProfile ==
  [procs |-> {"p1"}, maxStarts |-> MaxStarts, catalogs |-> Catalogs \cup {<<>>},
   fetchErrors |-> {"OpenRouter API error: 429", "fetch failed"},
   barkErrors |-> {"Bark push failed: 500", "fetch failed"},
   kvFail |-> TRUE, stale |-> FALSE]

RaceProfile ==
  [procs |-> Procs, maxStarts |-> Cardinality(Procs), catalogs |-> {<<1, 2, 6>>, <<2, 3, 6>>},
   fetchErrors |-> {"OpenRouter API error: 429"},
   barkErrors |-> {"Bark push failed: 500"},
   kvFail |-> FALSE, stale |-> TRUE]

\* kv.get(key): the latest value, or (eventual consistency) the one before it
KvGet(key, prof) == IF prof.stale THEN {kv[key], kvOld[key]} ELSE {kv[key]}

\* mutant: a put of models_data made while another invocation is between its
\* two puts keeps the stored list of all models
KvPutTorn(key, value, prof) ==
  LET torn == IF /\ key = "models_data"
                 /\ kv[key].t = "json"
                 /\ \E q \in Procs : run[q].pc = "m_put_update"
              THEN [value EXCEPT !.v.allModels = kv[key].v.allModels]
              ELSE value
  IN /\ kv' = [kv EXCEPT ![key] = torn]
     /\ kvOld' = [kvOld EXCEPT ![key] = IF prof.stale THEN kv[key] ELSE torn]

\* kv.put(key, value); kvOld keeps what a lagging read can still return
KvPut(key, value, prof) ==
  /\ kv' = [kv EXCEPT ![key] = value]
  /\ kvOld' = [kvOld EXCEPT ![key] = IF prof.stale THEN kv[key] ELSE value]

\* Date.now() / new Date(): any time from the last observed one on
Times == {clock + k * TickMs : k \in 0..MaxTicks} \cap (0..(ClockStart + MaxTicks * TickMs))

Init ==
  /\ clock = ClockStart
  /\ \E c \in Configs :
       /\ env = c.env
       /\ kv = [EmptyKv EXCEPT !.app_settings = c.settings]
       /\ kvOld = [EmptyKv EXCEPT !.app_settings = c.settings]
  /\ run = [p \in Procs |-> IdleRun]
  /\ starts = 0
  /\ lastAcceptT = 0
  /\ overlapped = FALSE
  /\ lastPut = NoPut
  /\ pin = <<>>
  /\ pout = <<>>

(***************************************************************************)
(* ModelMonitor: the synchronous continuations between two awaits          *)
(***************************************************************************)
\* mutant: scheduled() without its try/catch
HandlerOutcomeNoCatch(kind, res) ==
  IF res.t \in {"caught", "rejected"} THEN "threw" ELSE "returned"

\* how the handler of an invocation ends: scheduled() logs whatever was thrown
\* inside its try block and returns; the fetch handler answers an exception
\* with the text 'Internal server error: ...' and status 500
HandlerOutcome(kind, res) ==
  CASE kind = "scheduled" /\ res.t \in {"caught", "rejected"} -> "returned"
    [] kind = "scheduled" -> "returned"
    [] res.t = "rejected" -> "error500"
    [] OTHER -> "responded"

Finished(r, res) ==
  [r EXCEPT !.pc = "done", !.result = res, !.handler = HandlerOutcome(r.kind, res)]

\* runMonitoring's catch block: an error notification when this.barkUrl is
\* set, then the {success: false} response
EnterCatch(r, msg) ==
  IF r.barkUrl # ""
  THEN [r EXCEPT !.pc = "e_send", !.error = msg]
  ELSE Finished([r EXCEPT !.error = msg], ErrorResponse(msg))

Complete(r) == Finished(r, SuccessResponse(Len(r.models), Len(r.data.freeModels)))

\* model.name || model.id
DisplayName(k) == IF Len(Items[k].name) > 0 THEN Items[k].name ELSE Items[k].id

DisplayNames(models) == [i \in 1..Len(models) |-> DisplayName(models[i])]

\* mutant: both clauses are written whatever the two lists hold
ChangeMessageBoth(added, removed) ==
  <<[label |-> "added", names |-> DisplayNames(added)],
    [label |-> "removed", names |-> DisplayNames(removed)]>>

\* the parts of the message body, joined by the code with a separator
ChangeMessage(added, removed) ==
  (IF Len(added) > 0 THEN <<[label |-> "added", names |-> DisplayNames(added)]>> ELSE <<>>)
  \o (IF Len(removed) > 0 THEN <<[label |-> "removed", names |-> DisplayNames(removed)]>> ELSE <<>>)

\* sendChangeNotification once the target is known: swap this.barkUrl and
\* issue the request of sendBarkNotification
BeginSend(r, url) ==
  [r EXCEPT !.originalBarkUrl = r.barkUrl, !.barkUrl = url, !.pc = "n_send"]

\* mutant: the stored settings are consulted whatever this.barkUrl holds
SendChangeStoredFirst(r) == [r EXCEPT !.pc = "n_settings"]

SendChange(r) ==
  IF r.barkUrl = "" THEN [r EXCEPT !.pc = "n_settings"] ELSE BeginSend(r, r.barkUrl)

\* mutant: a missing baseline counts as an empty one
HasBaselineAlways(previousData) == TRUE

\* if (previousData && previousData.freeModels)
HasBaseline(previousData) == ~previousData.isNull /\ previousData.hasFreeModels

\* runMonitoring after storeModelsData returned
AfterStore(r) ==
  IF HasBaseline(r.previousData)
  THEN LET added == AddedModels(r.previousData.freeModels, r.data.freeModels)
           removed == RemovedModels(r.previousData.freeModels, r.data.freeModels)
           r1 == [r EXCEPT !.added = added, !.removed = removed, !.diffed = TRUE]
       IN IF HasChanges(added, removed) THEN SendChange(r1) ELSE Complete(r1)
  ELSE Complete(r)

\* mutant: the stored snapshot is never used as the baseline
PreviousDataNone(raw) == NoPrevious

\* getPreviousModelsData: null for a missing key and for text that does not parse
PreviousData(raw) ==
  IF raw.t # "null" /\ JsonParses(raw) THEN JsonParse(raw) ELSE NoPrevious

\* getBarkUrlFromSettings
StoredBark(raw) ==
  IF raw.t # "null" /\ JsonParses(raw) /\ ~JsonParse(raw).isNull
  THEN JsonParse(raw).barkBaseUrl
  ELSE ""

Notification(category, url, added, removed, about) ==
  [category |-> category, url |-> url, parts |-> ChangeMessage(added, removed), about |-> about]

(***************************************************************************)
(* Actions: one per await of the handlers                                  *)
(***************************************************************************)
SetRun(p, r) == run' = [run EXCEPT ![p] = r]

\* a fresh invocation, numbered in the order of the starts; before records the
\* store as the invocation found it
NewRun(kind) ==
  [IdleRun EXCEPT !.kind = kind, !.id = starts + 1,
                  !.before = [models_data |-> kv.models_data, last_update |-> kv.last_update,
                              last_monitor_trigger |-> kv.last_monitor_trigger]]

\* new ModelMonitor(env), runMonitoring() up to the request of
\* fetchOpenRouterModels
NewMonitor(r) == [r EXCEPT !.barkUrl = env.BARK_API_URL, !.pc = "m_fetch"]

\* execution contexts are interchangeable: the second one is taken only
\* while the first is busy
Available(p, prof) ==
  /\ run[p].pc = "idle"
  /\ starts < prof.maxStarts
  /\ p = "p2" => run["p1"].pc # "idle"

\* the cron trigger invokes scheduled()
StartScheduled(p, prof) ==
  /\ Available(p, prof)
  /\ starts' = starts + 1
  /\ overlapped' = (overlapped \/ \E q \in Procs \ {p} :
                                    run[q].kind = "scheduled" /\ run[q].pc # "done")
  /\ SetRun(p, [NewRun("scheduled") EXCEPT !.pc = "s_settings"])
  /\ UNCHANGED <<clock, env, kv, kvOld, lastAcceptT, lastPut, pin, pout>>

\* mutant: the manual trigger goes through the throttle of scheduled()
StartManualThrottled(p, prof) ==
  /\ Available(p, prof)
  /\ starts' = starts + 1
  /\ SetRun(p, [NewRun("manual") EXCEPT !.pc = "s_settings"])
  /\ UNCHANGED <<clock, env, kv, kvOld, lastAcceptT, overlapped, lastPut, pin, pout>>

\* GET /api/monitor/run
StartManual(p, prof) ==
  /\ Available(p, prof)
  /\ starts' = starts + 1
  /\ SetRun(p, NewMonitor(NewRun("manual")))
  /\ UNCHANGED <<clock, env, kv, kvOld, lastAcceptT, overlapped, lastPut, pin, pout>>

\* await kv.get('app_settings'), then the interval
SchedReadSettings(p, prof) ==
  /\ run[p].pc = "s_settings"
  /\ \/ \E raw \in KvGet("app_settings", prof) :
          SetRun(p, [run[p] EXCEPT
                       !.pc = "s_throttle",
                       !.intervalMinutes = IntervalMinutes(env.MONITOR_INTERVAL_MINUTES, raw),
                       !.fresh = (@ /\ raw = kv.app_settings)])
     \/ /\ prof.kvFail
        /\ SetRun(p, Finished(run[p], Caught("kv get failed")))
  /\ UNCHANGED <<clock, env, kv, kvOld, starts, lastAcceptT, overlapped, lastPut, pin, pout>>

\* mutant: an accepted trigger starts the run without the put
ThrottleFetchFirst(r, lastTriggerRaw, lastUpdateRaw, now) ==
  LET r1 == [r EXCEPT !.seenTrigger = lastTriggerRaw, !.seenUpdate = lastUpdateRaw,
                      !.now = now]
  IN IF SkipRun(now, LastRunTimestamp(lastTriggerRaw, lastUpdateRaw),
                IntervalMs(r.intervalMinutes))
     THEN Finished(r1, Skipped)
     ELSE NewMonitor([r1 EXCEPT !.accepted = TRUE])

\* mutant: a trigger that was not followed by a last_update is retried at once
ThrottleRetryFailed(r, lastTriggerRaw, lastUpdateRaw, now) ==
  LET r1 == [r EXCEPT !.seenTrigger = lastTriggerRaw, !.seenUpdate = lastUpdateRaw,
                      !.now = now]
      confirmed == FoldLastRun(0, lastUpdateRaw) >= FoldLastRun(0, lastTriggerRaw)
  IN IF confirmed /\ SkipRun(now, LastRunTimestamp(lastTriggerRaw, lastUpdateRaw),
                             IntervalMs(r.intervalMinutes))
     THEN Finished(r1, Skipped)
     ELSE [r1 EXCEPT !.pc = "s_put"]

\* what scheduled() does with the two values and Date.now()
Throttle(r, lastTriggerRaw, lastUpdateRaw, now) ==
  LET r1 == [r EXCEPT !.seenTrigger = lastTriggerRaw, !.seenUpdate = lastUpdateRaw,
                      !.now = now]
  IN IF SkipRun(now, LastRunTimestamp(lastTriggerRaw, lastUpdateRaw),
                IntervalMs(r.intervalMinutes))
     THEN Finished(r1, Skipped)
     ELSE [r1 EXCEPT !.pc = "s_put"]

\* await Promise.all([kv.get(...), kv.get(...)]), then the throttle decision
SchedThrottle(p, prof) ==
  /\ run[p].pc = "s_throttle"
  /\ \/ \E lastTriggerRaw \in KvGet("last_monitor_trigger", prof),
           lastUpdateRaw \in KvGet("last_update", prof), now \in Times :
          /\ clock' = now
          /\ SetRun(p, Throttle([run[p] EXCEPT
                                   !.fresh = (@ /\ lastTriggerRaw = kv.last_monitor_trigger
                                                /\ lastUpdateRaw = kv.last_update)],
                                lastTriggerRaw, lastUpdateRaw, now))
     \/ /\ prof.kvFail
        /\ SetRun(p, Finished(run[p], Caught("kv get failed")))
        /\ UNCHANGED clock
  /\ UNCHANGED <<env, kv, kvOld, starts, lastAcceptT, overlapped, lastPut, pin, pout>>

\* await kv.put('last_monitor_trigger', ...), then runMonitoring up to its fetch
SchedPutTrigger(p, prof) ==
  /\ run[p].pc = "s_put"
  /\ \/ /\ KvPut("last_monitor_trigger", ToISOString(run[p].now), prof)
        /\ lastAcceptT' = run[p].now
        /\ SetRun(p, NewMonitor([run[p] EXCEPT
                                   !.accepted = TRUE, !.prevAcceptT = lastAcceptT,
                                   !.writes = @ \cup {"last_monitor_trigger"}]))
     \/ /\ prof.kvFail
        /\ SetRun(p, Finished(run[p], Caught("kv put failed")))
        /\ UNCHANGED <<kv, kvOld, lastAcceptT>>
  /\ UNCHANGED <<clock, env, starts, overlapped, lastPut, pin, pout>>

\* mutant: no emptiness test after the fetch
FetchNoEmptyTest(p, prof) ==
  /\ run[p].pc = "m_fetch"
  /\ LET r == [run[p] EXCEPT !.fetches = @ + 1]
         f == [r EXCEPT !.fetchFailed = TRUE]
     IN \/ \E models \in prof.catalogs :
             SetRun(p, [(IF Len(models) = 0 THEN f ELSE r) EXCEPT
                          !.models = models, !.pc = "m_prev"])
        \/ \E msg \in prof.fetchErrors : SetRun(p, EnterCatch(f, msg))
  /\ UNCHANGED <<clock, env, kv, kvOld, starts, lastAcceptT, overlapped, lastPut, pin, pout>>

\* fetchOpenRouterModels resolves or throws; the emptiness test of runMonitoring
Fetch(p, prof) ==
  /\ run[p].pc = "m_fetch"
  /\ LET r == [run[p] EXCEPT !.fetches = @ + 1]
         f == [r EXCEPT !.fetchFailed = TRUE]
     IN \/ \E models \in prof.catalogs :
             IF Len(models) = 0
             THEN SetRun(p, EnterCatch(f, "No models received from OpenRouter API"))
             ELSE SetRun(p, [r EXCEPT !.models = models, !.pc = "m_prev"])
        \/ \E msg \in prof.fetchErrors : SetRun(p, EnterCatch(f, msg))
  /\ UNCHANGED <<clock, env, kv, kvOld, starts, lastAcceptT, overlapped, lastPut, pin, pout>>

\* mutant: the free list is the whole list
NewDataUnfiltered(models, now) == Snapshot(ToISOString(now), models, models)

\* the object runMonitoring hands to storeModelsData
NewData(models, now) == Snapshot(ToISOString(now), models, identifyFreeModels(models))

\* mutant: a failing load aborts the run
GetPreviousAbort(p, prof) ==
  /\ run[p].pc = "m_prev"
  /\ \E now \in Times :
       LET Continue(prev, failed) ==
             SetRun(p, [run[p] EXCEPT
                          !.previousData = prev, !.loadFailed = failed,
                          !.data = NewData(run[p].models, now),
                          !.pc = "m_put_data"])
       IN /\ clock' = now
          /\ \/ \E raw \in KvGet("models_data", prof) : Continue(PreviousData(raw), FALSE)
             \/ /\ prof.kvFail
                /\ SetRun(p, EnterCatch([run[p] EXCEPT !.loadFailed = TRUE], "kv get failed"))
  /\ UNCHANGED <<env, kv, kvOld, starts, lastAcceptT, overlapped, lastPut, pin, pout>>

\* mutant: the previous snapshot is read after the run's own write
GetPreviousOwnOutput(p, prof) ==
  /\ run[p].pc = "m_prev"
  /\ \E now \in Times :
       /\ clock' = now
       /\ SetRun(p, [run[p] EXCEPT
                       !.previousData = NewData(run[p].models, now),
                       !.data = NewData(run[p].models, now),
                       !.pc = "m_put_data"])
  /\ UNCHANGED <<env, kv, kvOld, starts, lastAcceptT, overlapped, lastPut, pin, pout>>

\* getPreviousModelsData, identifyFreeModels and the snapshot object
GetPrevious(p, prof) ==
  /\ run[p].pc = "m_prev"
  /\ \E now \in Times :
       LET Continue(prev, failed) ==
             SetRun(p, [run[p] EXCEPT
                          !.previousData = prev, !.loadFailed = failed,
                          !.data = NewData(run[p].models, now),
                          !.pc = "m_put_data"])
       IN /\ clock' = now
          /\ \/ \E raw \in KvGet("models_data", prof) : Continue(PreviousData(raw), FALSE)
             \/ prof.kvFail /\ Continue(NoPrevious, TRUE)
  /\ UNCHANGED <<env, kv, kvOld, starts, lastAcceptT, overlapped, lastPut, pin, pout>>

\* mutant: the put keeps the entries of the stored snapshot that the new one lacks
PutDataMerge(p, prof) ==
  /\ run[p].pc = "m_put_data"
  /\ \/ /\ LET old == run[p].previousData.allModels
                NotNew(k) == \A i \in 1..Len(run[p].data.allModels) : run[p].data.allModels[i] # k
                merged == [run[p].data EXCEPT !.allModels = @ \o SelectSeq(old, NotNew)]
           IN KvPut("models_data", JsonStringify(merged), prof)
        /\ SetRun(p, [run[p] EXCEPT !.pc = "m_put_update", !.writes = @ \cup {"models_data"}])
     \/ /\ prof.kvFail
        /\ SetRun(p, EnterCatch([run[p] EXCEPT !.storeFailed = TRUE], "kv put failed"))
        /\ UNCHANGED <<kv, kvOld>>
  /\ UNCHANGED <<clock, env, starts, lastAcceptT, overlapped, lastPut, pin, pout>>

\* storeModelsData: the first put
PutData(p, prof) ==
  /\ run[p].pc = "m_put_data"
  /\ \/ /\ KvPut("models_data", JsonStringify(run[p].data), prof)
        /\ lastPut' = [lastPut EXCEPT !.models_data = run[p].id]
        /\ SetRun(p, [run[p] EXCEPT !.pc = "m_put_update", !.writes = @ \cup {"models_data"}])
     \/ /\ prof.kvFail
        /\ SetRun(p, EnterCatch([run[p] EXCEPT !.storeFailed = TRUE], "kv put failed"))
        /\ UNCHANGED <<kv, kvOld, lastPut>>
  /\ UNCHANGED <<clock, env, starts, lastAcceptT, overlapped, pin, pout>>

\* mutant: the second put takes a timestamp of its own
PutUpdateFreshStamp(p, prof) ==
  /\ run[p].pc = "m_put_update"
  /\ \/ /\ \E now \in Times : KvPut("last_update", ToISOString(now), prof)
        /\ lastPut' = [lastPut EXCEPT !.last_update = run[p].id]
        /\ SetRun(p, AfterStore([run[p] EXCEPT !.writes = @ \cup {"last_update"}]))
     \/ /\ prof.kvFail
        /\ SetRun(p, EnterCatch([run[p] EXCEPT !.storeFailed = TRUE], "kv put failed"))
        /\ UNCHANGED <<kv, kvOld, lastPut>>
  /\ UNCHANGED <<clock, env, starts, lastAcceptT, overlapped, pin, pout>>

\* storeModelsData: the second put, then the comparison with the previous data
PutUpdate(p, prof) ==
  /\ run[p].pc = "m_put_update"
  /\ \/ /\ KvPut("last_update", run[p].data.timestamp, prof)
        /\ lastPut' = [lastPut EXCEPT !.last_update = run[p].id]
        /\ SetRun(p, AfterStore([run[p] EXCEPT !.writes = @ \cup {"last_update"}]))
     \/ /\ prof.kvFail
        /\ SetRun(p, EnterCatch([run[p] EXCEPT !.storeFailed = TRUE], "kv put failed"))
        /\ UNCHANGED <<kv, kvOld, lastPut>>
  /\ UNCHANGED <<clock, env, starts, lastAcceptT, overlapped, pin, pout>>

\* sendChangeNotification: await getBarkUrlFromSettings()
NotifSettings(p, prof) ==
  /\ run[p].pc = "n_settings"
  /\ LET Continue(r, url) ==
           SetRun(p, IF url = "" THEN Complete(r) ELSE BeginSend(r, url))
     IN \/ \E raw \in KvGet("app_settings", prof) : Continue(run[p], StoredBark(raw))
        \/ prof.kvFail /\ Continue([run[p] EXCEPT !.settingsFailed = TRUE], "")
  /\ UNCHANGED <<clock, env, kv, kvOld, starts, lastAcceptT, overlapped, lastPut, pin, pout>>

\* mutant: a failed delivery puts the previous snapshot back
NotifSendRollback(p, prof) ==
  /\ run[p].pc = "n_send"
  /\ LET r == [run[p] EXCEPT
                 !.notifs = Append(@, Notification("update", run[p].barkUrl,
                                                   run[p].added, run[p].removed, "")),
                 !.barkUrl = run[p].originalBarkUrl]
     IN \/ SetRun(p, Complete(r)) /\ UNCHANGED <<kv, kvOld>>
        \/ \E msg \in prof.barkErrors :
             /\ SetRun(p, EnterCatch([r EXCEPT !.notifyFailed = TRUE], msg))
             /\ KvPut("models_data", run[p].before.models_data, prof)
  /\ UNCHANGED <<clock, env, starts, lastAcceptT, overlapped, lastPut, pin, pout>>

\* mutant: this.barkUrl is restored after the request only, not in a finally
NotifSendNoFinally(p, prof) ==
  /\ run[p].pc = "n_send"
  /\ LET r == [run[p] EXCEPT
                 !.notifs = Append(@, Notification("update", run[p].barkUrl,
                                                   run[p].added, run[p].removed, ""))]
     IN \/ SetRun(p, Complete([r EXCEPT !.barkUrl = run[p].originalBarkUrl]))
        \/ \E msg \in prof.barkErrors :
             SetRun(p, EnterCatch([r EXCEPT !.notifyFailed = TRUE], msg))
  /\ UNCHANGED <<clock, env, kv, kvOld, starts, lastAcceptT, overlapped, lastPut, pin, pout>>

\* the request of sendBarkNotification(..., 'update') resolves; the finally
\* block of sendChangeNotification restores this.barkUrl
NotifSend(p, prof) ==
  /\ run[p].pc = "n_send"
  /\ LET r == [run[p] EXCEPT
                 !.notifs = Append(@, Notification("update", run[p].barkUrl,
                                                   run[p].added, run[p].removed, "")),
                 !.barkUrl = run[p].originalBarkUrl]
     IN \/ SetRun(p, Complete(r))
        \/ \E msg \in prof.barkErrors :
             SetRun(p, EnterCatch([r EXCEPT !.notifyFailed = TRUE], msg))
  /\ UNCHANGED <<clock, env, kv, kvOld, starts, lastAcceptT, overlapped, lastPut, pin, pout>>

\* the request of sendBarkNotification(..., 'error') in the catch block resolves
ErrSend(p, prof) ==
  /\ run[p].pc = "e_send"
  /\ LET r == [run[p] EXCEPT
                 !.notifs = Append(@, Notification("error", run[p].barkUrl,
                                                   <<>>, <<>>, run[p].error))]
     IN \/ SetRun(p, Finished(r, ErrorResponse(r.error)))
        \/ \E msg \in prof.barkErrors : SetRun(p, Finished(r, Rejected(msg)))
  /\ UNCHANGED <<clock, env, kv, kvOld, starts, lastAcceptT, overlapped, lastPut, pin, pout>>

\* the handler has returned; the execution context is released
Finish(p) ==
  /\ run[p].pc = "done"
  /\ SetRun(p, IdleRun)
  /\ UNCHANGED <<clock, env, kv, kvOld, starts, lastAcceptT, overlapped, lastPut, pin, pout>>

Step(prof) ==
  \E p \in prof.procs :
    \/ StartScheduled(p, prof)
    \/ StartManual(p, prof)
    \/ SchedReadSettings(p, prof)
    \/ SchedThrottle(p, prof)
    \/ SchedPutTrigger(p, prof)
    \/ Fetch(p, prof)
    \/ GetPrevious(p, prof)
    \/ PutData(p, prof)
    \/ PutUpdate(p, prof)
    \/ NotifSettings(p, prof)
    \/ NotifSend(p, prof)
    \/ ErrSend(p, prof)
    \/ Finish(p)

\* one execution context at a time, every failure of every collaborator
Next == Step(FullProfile)

Spec == Init /\ [][Next]_vars

\* two overlapping execution contexts
NextRace == Step(RaceProfile)

SpecRace == Init /\ [][NextRace]_vars

(***************************************************************************)
(* The interval computation of scheduled() on its own: every pair of an    *)
(* environment value and a stored app_settings text                        *)
(***************************************************************************)
EnvValues ==
  {Undef, Str(<<>>), Str(<<"0">>), Str(<<"2">>), Str(<<"-", "3">>), Str(<<"9", "9">>),
   Str(<<"a", "b", "c">>), Str(<<"7", "x">>), Str(<<" ", "5">>)}

StoredValues ==
  {NullVal, Garbage, JsonStringify(NoSettings)}
  \cup {JsonStringify(Settings(mi, "")) :
          mi \in {Undef, Num(0), Num(0 - 2), Num(10), Num(60), Num(61), Str(<<"3", "0">>),
                  Str(<<"a", "b", "c">>), Str(<<"0">>), Str(<<>>)}}

InitMain ==
  /\ clock = ClockStart
  /\ env = [MONITOR_INTERVAL_MINUTES |-> Undef, BARK_API_URL |-> ""]
  /\ kv = EmptyKv
  /\ kvOld = EmptyKv
  /\ run = [p \in Procs |-> IdleRun]
  /\ starts = 0
  /\ lastAcceptT = 0
  /\ overlapped = FALSE
  /\ lastPut = NoPut

InitInterval ==
  /\ InitMain
  /\ pin \in [envValue : EnvValues, settingsRaw : StoredValues]
  /\ pout = <<>>

ApplyInterval ==
  /\ pout = <<>>
  /\ pout' = <<IntervalMinutes(pin.envValue, pin.settingsRaw)>>
  /\ UNCHANGED <<clock, env, kv, kvOld, run, starts, lastAcceptT, overlapped, lastPut, pin>>

SpecInterval == InitInterval /\ [][ApplyInterval]_vars

(***************************************************************************)
(* The two filters of detectAndNotifyChanges on their own, and the message  *)
(* sendChangeNotification writes for their result: every pair of sequences *)
(* of catalog entries of bounded length                                    *)
(***************************************************************************)
DiffItems == {1, 2, 3, 4, 7, 9}

SeqsUpTo(S, n) == UNION {[1..k -> S] : k \in 0..n}

InitDiff ==
  /\ InitMain
  /\ pin \in [previous : SeqsUpTo(DiffItems, MaxLen), current : SeqsUpTo(DiffItems, MaxLen)]
  /\ pout = <<>>

ApplyDiff ==
  /\ pout = <<>>
  /\ LET added == AddedModels(pin.previous, pin.current)
         removed == RemovedModels(pin.previous, pin.current)
     IN pout' = <<[added |-> added, removed |-> removed,
                   parts |-> ChangeMessage(added, removed)]>>
  /\ UNCHANGED <<clock, env, kv, kvOld, run, starts, lastAcceptT, overlapped, lastPut, pin>>

SpecDiff == InitDiff /\ [][ApplyDiff]_vars

(***************************************************************************)
(* The two free-model predicates on their own: every entry built from the  *)
(* ids and the price values below                                          *)
(***************************************************************************)
ClassifyIds == {<<"d">>, <<"a">> \o Free5, Free5, <<>>, <<"f", "r", "e", "e">>}

PriceValues ==
  {Undef, Num(0), Num(1), Str(<<>>), Str(<<"0">>), Str(<<"0", ".", "0">>), Str(<<"-", "0">>),
   Str(<<"0", ".", "5">>), Str(<<"a", "b", "c">>)}

ClassifyItems ==
  {[id |-> id, name |-> <<>>, pricing |-> pr] :
     id \in ClassifyIds,
     pr \in {NoPricing} \cup {Pricing(p, c) : p \in PriceValues, c \in PriceValues}}

InitClassify ==
  /\ InitMain
  /\ pin \in ClassifyItems
  /\ pout = <<>>

ApplyClassify ==
  /\ pout = <<>>
  /\ pout' = <<[backend |-> IsFree(pin), frontend |-> isFreeModel(pin)]>>
  /\ UNCHANGED <<clock, env, kv, kvOld, run, starts, lastAcceptT, overlapped, lastPut, pin>>

SpecClassify == InitClassify /\ [][ApplyClassify]_vars

(***************************************************************************)
(* WebInterface: the read endpoints of the fetch handler.  pin is the       *)
(* request in flight (the status endpoint awaits twice; body is what a     *)
(* POST carried), pout the last response.                                  *)
(***************************************************************************)
NoRequest ==
  [op |-> "none", lastUpdate |-> NullVal, settings |-> NoSettings,
   body |-> [authorized |-> FALSE, monitorInterval |-> Undef, barkBaseUrl |-> ""]]

Never == [t |-> "never"]

NoResponse ==
  [op |-> "none", status |-> 0, success |-> FALSE, error |-> "", data |-> <<>>,
   timestamp |-> NullVal, totalCount |-> 0, lastUpdate |-> NullVal, hasData |-> FALSE,
   totalModels |-> 0, freeModels |-> 0, settings |-> NoSettings]

\* the catch block of an endpoint
WebError(op, msg) == [NoResponse EXCEPT !.op = op, !.status = 500, !.error = msg]

NotFound(op) ==
  [NoResponse EXCEPT !.op = op, !.status = 404, !.error = "No models data available"]

\* getModelsApi once kv.get('models_data') has resolved
getModelsApi(data) ==
  IF data.t = "null" THEN NotFound("models")
  ELSE IF ~JsonParses(data) THEN WebError("models", "Failed to retrieve models data")
  ELSE LET modelsData == JsonParse(data) IN
       [NoResponse EXCEPT !.op = "models", !.status = 200, !.success = TRUE,
                          !.data = modelsData.allModels,
                          !.timestamp = modelsData.timestamp,
                          !.totalCount = modelsData.totalModels]

\* getFreeModelsApi once kv.get('models_data') has resolved
getFreeModelsApi(data) ==
  IF data.t = "null" THEN NotFound("free-models")
  ELSE IF ~JsonParses(data) THEN WebError("free-models", "Failed to retrieve free models data")
  ELSE LET modelsData == JsonParse(data) IN
       [NoResponse EXCEPT !.op = "free-models", !.status = 200, !.success = TRUE,
                          !.data = modelsData.freeModels,
                          !.timestamp = modelsData.timestamp,
                          !.totalCount = Len(modelsData.freeModels)]

\* getStatus once both reads have resolved
getStatus(lastUpdate, data) ==
  LET response == [NoResponse EXCEPT
                     !.op = "status", !.status = 200,
                     !.lastUpdate = IF lastUpdate.t = "null" THEN Never ELSE lastUpdate,
                     !.hasData = (data.t # "null")]
  IN IF data.t = "null" THEN response
     ELSE IF ~JsonParses(data) THEN WebError("status", "Unexpected token")
     ELSE [response EXCEPT !.totalModels = JsonParse(data).totalModels,
                           !.freeModels = Len(JsonParse(data).freeModels)]

\* GET /api/models
GetModelsApi(prof) ==
  /\ pin = NoRequest
  /\ \/ \E data \in KvGet("models_data", prof) : pout' = getModelsApi(data)
     \/ prof.kvFail /\ pout' = WebError("models", "Failed to retrieve models data")
  /\ UNCHANGED <<clock, env, kv, kvOld, run, starts, lastAcceptT, overlapped, lastPut, pin>>

\* GET /api/free-models
GetFreeModelsApi(prof) ==
  /\ pin = NoRequest
  /\ \/ \E data \in KvGet("models_data", prof) : pout' = getFreeModelsApi(data)
     \/ prof.kvFail /\ pout' = WebError("free-models", "Failed to retrieve free models data")
  /\ UNCHANGED <<clock, env, kv, kvOld, run, starts, lastAcceptT, overlapped, lastPut, pin>>

\* GET /api/status: await kv.get('last_update')
GetStatusLastUpdate(prof) ==
  /\ pin = NoRequest
  /\ \/ /\ \E lastUpdate \in KvGet("last_update", prof) :
             pin' = [NoRequest EXCEPT !.op = "status", !.lastUpdate = lastUpdate]
        /\ UNCHANGED pout
     \/ /\ prof.kvFail
        /\ pout' = WebError("status", "kv get failed")
        /\ UNCHANGED pin
  /\ UNCHANGED <<clock, env, kv, kvOld, run, starts, lastAcceptT, overlapped, lastPut>>

\* mutant: the status endpoint repairs a missing last_update from the snapshot
GetStatusDataRepair(prof) ==
  /\ pin.op = "status"
  /\ pin' = NoRequest
  /\ \/ \E data \in KvGet("models_data", prof) :
          /\ pout' = getStatus(pin.lastUpdate, data)
          /\ IF pin.lastUpdate.t = "null" /\ data.t # "null" /\ JsonParses(data)
             THEN KvPut("last_update", JsonParse(data).timestamp, prof)
             ELSE UNCHANGED <<kv, kvOld>>
     \/ prof.kvFail /\ pout' = WebError("status", "kv get failed") /\ UNCHANGED <<kv, kvOld>>
  /\ UNCHANGED <<clock, env, run, starts, lastAcceptT, overlapped, lastPut>>

\* GET /api/status: await kv.get('models_data') and the response
GetStatusData(prof) ==
  /\ pin.op = "status"
  /\ pin' = NoRequest
  /\ \/ \E data \in KvGet("models_data", prof) : pout' = getStatus(pin.lastUpdate, data)
     \/ prof.kvFail /\ pout' = WebError("status", "kv get failed")
  /\ UNCHANGED <<clock, env, kv, kvOld, run, starts, lastAcceptT, overlapped, lastPut>>

\* the bodies POST /api/settings is given: monitorInterval a number or left
\* out, barkBaseUrl a URL or left out ("")
PostedIntervals == {Undef, Num(0), Num(2), Num(61)}

PostedUrls == {"", EnvBarkUrl, "http://plain.bark/"}

HttpsUrls == {EnvBarkUrl, StoredBarkUrl}

\* the validation of updateSettings: the status it answers with, 0 to go on
validateSettings(authorized, monitorInterval, barkBaseUrl) ==
  IF ~authorized THEN 401
  ELSE IF Truthy(monitorInterval) /\ (monitorInterval.n < 1 \/ monitorInterval.n > 60) THEN 400
  ELSE IF barkBaseUrl # "" /\ barkBaseUrl \notin HttpsUrls THEN 400
  ELSE 0

\* the settings object updateSettings builds from the stored text and the body
mergeSettings(currentSettings, monitorInterval, barkBaseUrl) ==
  LET settings == IF currentSettings.t = "null" THEN Settings(Undef, "")
                  ELSE JsonParse(currentSettings)
  IN Settings(IF monitorInterval.t # "undef" THEN Num(ParseInt(monitorInterval).n)
              ELSE settings.monitorInterval,
              IF barkBaseUrl # "" THEN barkBaseUrl ELSE settings.barkBaseUrl)

\* POST /api/settings with the settings key configured: the validation and
\* await kv.get('app_settings')
UpdateSettings(prof) ==
  /\ pin = NoRequest
  /\ \E authorized \in BOOLEAN, monitorInterval \in PostedIntervals, barkBaseUrl \in PostedUrls :
       LET status == validateSettings(authorized, monitorInterval, barkBaseUrl) IN
       IF status # 0
       THEN pout' = [NoResponse EXCEPT !.op = "settings", !.status = status] /\ UNCHANGED pin
       ELSE \/ \E currentSettings \in KvGet("app_settings", prof) :
                 IF currentSettings.t # "null" /\ ~JsonParses(currentSettings)
                 THEN /\ pout' = WebError("settings", "Unexpected token")
                      /\ UNCHANGED pin
                 ELSE /\ pin' = [NoRequest EXCEPT
                                   !.op = "settings",
                                   !.body = [authorized |-> authorized,
                                             monitorInterval |-> monitorInterval,
                                             barkBaseUrl |-> barkBaseUrl],
                                   !.settings = mergeSettings(currentSettings, monitorInterval,
                                                              barkBaseUrl)]
                      /\ UNCHANGED pout
            \/ /\ prof.kvFail
               /\ pout' = WebError("settings", "kv get failed")
               /\ UNCHANGED pin
  /\ UNCHANGED <<clock, env, kv, kvOld, run, starts, lastAcceptT, overlapped, lastPut>>

\* updateSettings: await kv.put('app_settings', ...) and the response
UpdateSettingsPut(prof) ==
  /\ pin.op = "settings"
  /\ pin' = NoRequest
  /\ \/ /\ KvPut("app_settings", JsonStringify(pin.settings), prof)
        /\ pout' = [NoResponse EXCEPT !.op = "settings", !.status = 200, !.success = TRUE,
                                      !.settings = pin.settings]
     \/ /\ prof.kvFail
        /\ pout' = WebError("settings", "kv put failed")
        /\ UNCHANGED <<kv, kvOld>>
  /\ UNCHANGED <<clock, env, run, starts, lastAcceptT, overlapped, lastPut>>

\* the store an accepted scheduled run leaves behind when it fetched the
\* catalog <<1, 2, 6>> at ClockStart and every step of it succeeded
SeededKv ==
  [app_settings |-> NullVal,
   last_monitor_trigger |-> ToISOString(ClockStart),
   last_update |-> ToISOString(ClockStart),
   models_data |-> JsonStringify(NewData(<<1, 2, 6>>, ClockStart))]

\* a deployment before its first run, or after the run that left SeededKv
InitStored ==
  /\ clock = ClockStart
  /\ \E c \in Configs, seeded \in BOOLEAN :
       LET store == [(IF seeded THEN SeededKv ELSE EmptyKv) EXCEPT !.app_settings = c.settings]
       IN /\ env = c.env
          /\ kv = store
          /\ kvOld = store
          /\ lastAcceptT = IF seeded THEN ClockStart ELSE 0
  /\ run = [p \in Procs |-> IdleRun]
  /\ starts = 0
  /\ overlapped = FALSE
  /\ lastPut = NoPut

\* the monitor as the web interface sees it: one execution context and one
\* invocation on top of the initial store, every collaborator able to fail
WebProfile ==
  [procs |-> {"p1"}, maxStarts |-> Cardinality({"p1"}), catalogs |-> {<<1, 2, 6>>, <<2, 3, 6>>},
   fetchErrors |-> {"fetch failed"},
   barkErrors |-> {"Bark push failed: 500"},
   kvFail |-> TRUE, stale |-> FALSE]

InitWeb ==
  /\ InitStored
  /\ pin = NoRequest
  /\ pout = NoResponse

WebRead(prof) ==
  \/ GetModelsApi(prof)
  \/ GetFreeModelsApi(prof)
  \/ GetStatusLastUpdate(prof)
  \/ GetStatusData(prof)

NextWeb == Step(WebProfile) \/ WebRead(WebProfile)

SpecWeb == InitWeb /\ [][NextWeb]_vars

\* the settings endpoint next to the monitor
WebWrite(prof) ==
  \/ UpdateSettings(prof)
  \/ UpdateSettingsPut(prof)

NextSettings == Step(WebProfile) \/ WebWrite(WebProfile)

SpecSettings == InitWeb /\ [][NextSettings]_vars

(***************************************************************************)
(* Two overlapping invocations on a store that already holds a snapshot    *)
(***************************************************************************)
InitOverlap ==
  /\ InitStored
  /\ kv.models_data # NullVal
  /\ pin = <<>>
  /\ pout = <<>>

NextOverlap == Step(RaceProfile)

SpecOverlap == InitOverlap /\ [][NextOverlap]_vars

(***************************************************************************)
(* The throttle of scheduled() on its own: every pair of stored values of  *)
(* last_monitor_trigger and last_update, absent, unparseable or a time,    *)
(* against every reading of Date.now() and interval                        *)
(***************************************************************************)
\* times of earlier runs and of the trigger, some an exact interval apart
ThrottleTimes == {k * TickMs + d : k \in 3..(3 + MaxTicks), d \in {0, 500}}

ThrottleValues == {NullVal, Garbage, ToISOString(0)} \cup {ToISOString(t) : t \in ThrottleTimes}

InitThrottle ==
  /\ InitMain
  /\ pin \in [lastTriggerRaw : ThrottleValues, lastUpdateRaw : ThrottleValues,
              now : {t \in ThrottleTimes : t >= 4 * TickMs}, intervalMinutes : 1..MaxTicks]
  /\ pout = <<>>

ApplyThrottle ==
  /\ pout = <<>>
  /\ pout' = <<Throttle([IdleRun EXCEPT !.kind = "scheduled", !.pc = "s_throttle",
                                         !.intervalMinutes = pin.intervalMinutes],
                         pin.lastTriggerRaw, pin.lastUpdateRaw, pin.now)>>
  /\ UNCHANGED <<clock, env, kv, kvOld, run, starts, lastAcceptT, overlapped, lastPut, pin>>

SpecThrottle == InitThrottle /\ [][ApplyThrottle]_vars

(***************************************************************************)
(* The scheduler without end.  scheduled() uses time only through the      *)
(* difference Date.now() - lastRunTimestamp, so the model renames the time *)
(* axis whenever no invocation is in flight: the present becomes           *)
(* ClockStart again and a stored time older than OldestTime becomes        *)
(* OldestTime, which can only lengthen a skip.                             *)
(***************************************************************************)
\* the oldest time that is told apart from older ones
OldestTime == ClockStart - TickMs

\* the deployments whose interval lies within the span of time that is
\* followed; under each timestamp key what earlier runs have left: nothing, or
\* a time that is not after the present
InitLive ==
  /\ clock = ClockStart
  /\ LET LiveConfigs ==
           {c \in Configs :
              IntervalMinutes(c.env.MONITOR_INTERVAL_MINUTES, c.settings) <= MaxTicks}
         PastStamps == {NullVal, ToISOString(OldestTime), ToISOString(ClockStart)}
     IN \E c \in LiveConfigs, lastTrigger \in PastStamps, lastUpdate \in PastStamps :
          LET data == IF lastUpdate = NullVal THEN NullVal
                      ELSE JsonStringify(NewData(<<1, 2, 6>>, DateParse(lastUpdate).n))
              store == [app_settings |-> c.settings, last_monitor_trigger |-> lastTrigger,
                        last_update |-> lastUpdate, models_data |-> data]
          IN /\ env = c.env
             /\ kv = store
             /\ kvOld = store
             /\ lastAcceptT = IF lastTrigger = NullVal THEN 0 ELSE DateParse(lastTrigger).n
  /\ run = [p \in Procs |-> IdleRun]
  /\ starts = 0
  /\ overlapped = FALSE
  /\ lastPut = NoPut
  /\ pin = <<>>
  /\ pout = <<>>

\* no invocation is in flight: the time axis is renamed and the count of
\* invocations starts again
RenameTime ==
  /\ \A p \in Procs : run[p] = IdleRun
  /\ clock > ClockStart \/ starts > 0
  /\ LET d == clock - ClockStart
         ShiftTime(t) == Max2(t - d, OldestTime)
         ShiftStamp(v) == IF v.t = "iso" THEN ToISOString(ShiftTime(DateParse(v).n)) ELSE v
         ShiftKv(store) ==
           [store EXCEPT !.last_monitor_trigger = ShiftStamp(@),
                         !.last_update = ShiftStamp(@),
                         !.models_data = IF @.t = "json"
                                         THEN [@ EXCEPT !.v.timestamp = ShiftStamp(@)] ELSE @]
     IN /\ clock' = ClockStart
        /\ kv' = ShiftKv(kv)
        /\ kvOld' = ShiftKv(kvOld)
        /\ lastAcceptT' = IF lastAcceptT = 0 THEN 0 ELSE ShiftTime(lastAcceptT)
  /\ starts' = 0
  /\ lastPut' = NoPut
  /\ UNCHANGED <<env, run, overlapped, pin, pout>>

\* one execution context; the catalog API and the push endpoint can fail
LiveProfile ==
  [procs |-> {"p1"}, maxStarts |-> MaxStarts, catalogs |-> {<<1, 2, 6>>, <<2, 3, 6>>},
   fetchErrors |-> {"fetch failed"},
   barkErrors |-> {"Bark push failed: 500"},
   kvFail |-> FALSE, stale |-> FALSE]

NextLive == Step(LiveProfile) \/ RenameTime

\* the runtime resolves every await and returns from every handler; when the
\* cron trigger or a request arrives is left open.  The first fairness
\* conjunct is weak fairness of SchedReadSettings, which is enabled exactly at
\* "s_settings" and always leaves it.
SpecLive ==
  /\ InitLive
  /\ [][NextLive]_vars
  /\ \A p \in LiveProfile.procs :
       /\ []<>(run[p].pc # "s_settings")
       /\ WF_vars(SchedThrottle(p, LiveProfile))
       /\ WF_vars(SchedPutTrigger(p, LiveProfile))
       /\ WF_vars(Fetch(p, LiveProfile))
       /\ WF_vars(GetPrevious(p, LiveProfile))
       /\ WF_vars(PutData(p, LiveProfile))
       /\ WF_vars(PutUpdate(p, LiveProfile))
       /\ WF_vars(NotifSettings(p, LiveProfile))
       /\ WF_vars(NotifSend(p, LiveProfile))
       /\ WF_vars(ErrSend(p, LiveProfile))
       /\ WF_vars(Finish(p))

(***************************************************************************)
(* GET /api/test/bark: WebInterface.testBarkNotification and               *)
(* ModelMonitor.testBarkNotification, next to one monitoring run           *)
(***************************************************************************)
\* new ModelMonitor(env) and the request of getBarkUrlFromSettings
StartTestBark(p, prof) ==
  /\ Available(p, prof)
  /\ starts' = starts + 1
  /\ SetRun(p, [NewRun("test") EXCEPT !.barkUrl = env.BARK_API_URL, !.pc = "t_settings"])
  /\ UNCHANGED <<clock, env, kv, kvOld, lastAcceptT, overlapped, lastPut, pin, pout>>

\* await getBarkUrlFromSettings(); without a stored URL the test throws, with
\* one it swaps this.barkUrl and calls sendChangeNotification, which finds
\* this.barkUrl set, swaps again and issues the request
TestBarkSettings(p, prof) ==
  /\ run[p].pc = "t_settings"
  /\ LET Continue(r, barkUrl) ==
           SetRun(p, IF barkUrl = ""
                     THEN Finished(r, ErrorResponse("Bark API URL not configured"))
                     ELSE [SendChange([r EXCEPT !.testOriginalBarkUrl = r.barkUrl,
                                                !.barkUrl = barkUrl])
                             EXCEPT !.pc = "t_send"])
     IN \/ \E raw \in KvGet("app_settings", prof) : Continue(run[p], StoredBark(raw))
        \/ prof.kvFail /\ Continue([run[p] EXCEPT !.settingsFailed = TRUE], "")
  /\ UNCHANGED <<clock, env, kv, kvOld, starts, lastAcceptT, overlapped, lastPut, pin, pout>>

\* the request of sendBarkNotification resolves or throws; the finally blocks
\* of sendChangeNotification and of testBarkNotification restore this.barkUrl
TestBarkSend(p, prof) ==
  /\ run[p].pc = "t_send"
  /\ LET r == [run[p] EXCEPT
                 !.notifs = Append(@, Notification("update", run[p].barkUrl, <<>>, <<>>,
                                                   "test data"))]
         inner == [r EXCEPT !.barkUrl = r.originalBarkUrl]
         outer == [inner EXCEPT !.barkUrl = r.testOriginalBarkUrl]
         sent == [NoResult EXCEPT !.t = "response", !.success = TRUE]
     IN \/ SetRun(p, Finished(outer, sent))
        \/ \E msg \in prof.barkErrors :
             SetRun(p, Finished([outer EXCEPT !.notifyFailed = TRUE], ErrorResponse(msg)))
  /\ UNCHANGED <<clock, env, kv, kvOld, starts, lastAcceptT, overlapped, lastPut, pin, pout>>

NextBark ==
  \/ Step(WebProfile)
  \/ \E p \in WebProfile.procs :
       \/ StartTestBark(p, WebProfile)
       \/ TestBarkSettings(p, WebProfile)
       \/ TestBarkSend(p, WebProfile)

SpecBark == InitWeb /\ [][NextBark]_vars

(***************************************************************************)
(* The page script: OpenRouterMonitor.refresh.  pin is the page object     *)
(* (isRefreshing) with the invocations of refresh() made so far, by the    *)
(* button (showNotification) or by the five-minute timer.                  *)
(***************************************************************************)
NoCall ==
  [pc |-> "entered", showNotification |-> FALSE, sawRefreshing |-> FALSE,
   calledMonitor |-> FALSE, refreshSuccess |-> FALSE, dataLoaded |-> FALSE,
   statusLoaded |-> FALSE, notified |-> FALSE]

\* new OpenRouterMonitor()
InitPage ==
  /\ InitMain
  /\ pin = [isRefreshing |-> FALSE, calls |-> <<>>]
  /\ pout = <<>>

\* refresh(options) up to its first await: the guard, then the request of
\* /api/monitor/run
refresh(showNotification) ==
  /\ Len(pin.calls) < MaxStarts
  /\ LET call == [NoCall EXCEPT !.showNotification = showNotification,
                                !.sawRefreshing = pin.isRefreshing]
     IN IF pin.isRefreshing
        THEN pin' = [pin EXCEPT !.calls = Append(@, [call EXCEPT !.pc = "returned"])]
        ELSE pin' = [isRefreshing |-> TRUE,
                     calls |-> Append(pin.calls,
                                      [call EXCEPT !.calledMonitor = TRUE, !.pc = "monitor"])]
  /\ UNCHANGED <<clock, env, kv, kvOld, run, starts, lastAcceptT, overlapped, lastPut, pout>>

\* the request resolves with success, resolves with a failure or throws; the
\* finally block begins with await this.loadData()
RefreshMonitor(i) ==
  /\ pin.calls[i].pc = "monitor"
  /\ \E refreshSuccess \in BOOLEAN :
       pin' = [pin EXCEPT !.calls[i].refreshSuccess = refreshSuccess, !.calls[i].pc = "data"]
  /\ UNCHANGED <<clock, env, kv, kvOld, run, starts, lastAcceptT, overlapped, lastPut, pout>>

\* loadData() returns or throws (caught), then await this.loadStatus()
RefreshLoadData(i) ==
  /\ pin.calls[i].pc = "data"
  /\ \E loaded \in BOOLEAN :
       pin' = [pin EXCEPT !.calls[i].dataLoaded = loaded, !.calls[i].pc = "status"]
  /\ UNCHANGED <<clock, env, kv, kvOld, run, starts, lastAcceptT, overlapped, lastPut, pout>>

\* mutant: isRefreshing is reset at the end of the try block
RefreshLoadStatusNoFinally(i) ==
  /\ pin.calls[i].pc = "status"
  /\ \E loaded \in BOOLEAN :
       LET call == pin.calls[i] IN
       pin' = [isRefreshing |-> IF call.refreshSuccess THEN FALSE ELSE pin.isRefreshing,
               calls |-> [pin.calls EXCEPT ![i] =
                            [call EXCEPT !.statusLoaded = loaded,
                                         !.notified = (call.showNotification
                                                       \/ ~call.refreshSuccess),
                                         !.pc = "returned"]]]
  /\ UNCHANGED <<clock, env, kv, kvOld, run, starts, lastAcceptT, overlapped, lastPut, pout>>

\* loadStatus() returns or throws (caught); the notification; isRefreshing
\* is reset and refresh() returns
RefreshLoadStatus(i) ==
  /\ pin.calls[i].pc = "status"
  /\ \E loaded \in BOOLEAN :
       LET call == pin.calls[i] IN
       pin' = [isRefreshing |-> FALSE,
               calls |-> [pin.calls EXCEPT ![i] =
                            [call EXCEPT !.statusLoaded = loaded,
                                         !.notified = (call.showNotification
                                                       \/ ~call.refreshSuccess),
                                         !.pc = "returned"]]]
  /\ UNCHANGED <<clock, env, kv, kvOld, run, starts, lastAcceptT, overlapped, lastPut, pout>>

NextPage ==
  \/ \E showNotification \in BOOLEAN : refresh(showNotification)
  \/ \E i \in 1..Len(pin.calls) :
       \/ RefreshMonitor(i)
       \/ RefreshLoadData(i)
       \/ RefreshLoadStatus(i)

SpecPage == InitPage /\ [][NextPage]_vars

(***************************************************************************)
(* Properties                                                              *)
(***************************************************************************)
Occ(seq) == {seq[i] : i \in 1..Len(seq)}

Ids(seq) == {Items[k].id : k \in Occ(seq)}

SetMax(S) == CHOOSE x \in S : \A y \in S : y <= x

\* the scheduled invocations whose throttle reads have returned
PastThrottle(r) == r.kind = "scheduled" /\ r.now # 0

\* runMonitoring has a request or a KV operation outstanding
InFlight(r) ==
  r.pc \in {"m_fetch", "m_prev", "m_put_data", "m_put_update", "n_settings", "n_send", "e_send"}

\* the parseable ones among the two values the throttle observed
ParseableTimes(r) ==
  {DateParse(v).n : v \in {w \in {r.seenTrigger, r.seenUpdate} :
                             w.t # "null" /\ ~DateParse(w).nan}}

MayRun(r) ==
  \/ ParseableTimes(r) = {}
  \/ r.now - SetMax(ParseableTimes(r)) >= r.intervalMinutes * 60000

\* C1: a scheduled trigger is skipped exactly when a last run exists (the
\* later of the parseable values of last_monitor_trigger and last_update) and
\* less than intervalMinutes * 60000 ms have passed since; a skipped trigger
\* fetches nothing and writes no key; an accepted one writes the trigger key
\* and starts the run, unless that put throws.  With the default interval of
\* 5 minutes: 4 minutes ago skips, 6 minutes ago runs, no prior run runs.
C1_ThrottleDecision ==
  /\ \A p \in Procs :
       LET r == run[p] IN
       PastThrottle(r) =>
         IF MayRun(r)
         THEN \/ r.pc = "s_put"
              \/ r.accepted /\ (r.pc = "m_fetch" \/ r.fetches = 1)
              \/ r.result = Caught("kv put failed")
         ELSE /\ r.result = Skipped
              /\ r.pc = "done"
              /\ r.fetches = 0
              /\ r.writes = {}
              /\ kv.models_data = r.before.models_data
              /\ kv.last_update = r.before.last_update
              /\ kv.last_monitor_trigger = r.before.last_monitor_trigger
  /\ LET five == IntervalMs(IntervalMinutes(Undef, NullVal)) IN
     /\ SkipRun(10 * 60000, 6 * 60000, five)
     /\ ~SkipRun(10 * 60000, 4 * 60000, five)
     /\ ~SkipRun(10 * 60000, LastRunTimestamp(NullVal, NullVal), five)

\* a trigger skipped on the later of two parseable values
C1_Witness ==
  \E p \in Procs :
    /\ PastThrottle(run[p])
    /\ run[p].result = Skipped
    /\ run[p].seenTrigger.t = "iso"
    /\ run[p].seenUpdate.t = "iso"
    /\ DateParse(run[p].seenUpdate).n > DateParse(run[p].seenTrigger).n

\* C2: when no two scheduled triggers overlapped and the throttle reads of
\* the later one observed the latest writes, two consecutive accepted
\* scheduled triggers are at least the later one's interval apart.
C2_MinimumSpacing ==
  \A p \in Procs :
    LET r == run[p] IN
    (r.accepted /\ r.prevAcceptT # 0 /\ r.fresh /\ ~overlapped)
      => r.now - r.prevAcceptT >= r.intervalMinutes * 60000

C2_Witness ==
  \E p \in Procs :
    /\ run[p].accepted
    /\ run[p].prevAcceptT # 0
    /\ run[p].fresh
    /\ ~overlapped

\* C3: an accepted scheduled trigger has written last_monitor_trigger before
\* its catalog fetch starts, and a scheduled trigger that observes a trigger
\* timestamp less than one interval old is skipped.
C3_TriggerWrittenBeforeFetch ==
  \A p \in Procs :
    LET r == run[p] IN
    /\ (r.kind = "scheduled" /\ (InFlight(r) \/ r.fetches > 0))
         => /\ "last_monitor_trigger" \in r.writes
            /\ kv.last_monitor_trigger.t = "iso"
    /\ (PastThrottle(r) /\ r.seenTrigger.t = "iso"
        /\ r.now - DateParse(r.seenTrigger).n < r.intervalMinutes * 60000)
         => r.result = Skipped

\* a trigger skipped on the write of a run that is still in flight
C3_Witness ==
  \E p, q \in Procs :
    /\ p # q
    /\ run[p].kind = "scheduled"
    /\ InFlight(run[p])
    /\ run[q].result = Skipped
    /\ run[q].seenTrigger = ToISOString(run[p].now)

\* the configured value as the claim reads it: the stored monitorInterval when
\* present and numeric, else the environment value when numeric, else 5
ConfiguredInterval(envValue, settingsRaw) ==
  LET stored == IF settingsRaw.t = "json" /\ ~JsonParse(settingsRaw).isNull
                THEN JsonParse(settingsRaw).monitorInterval ELSE Undef
  IN IF stored.t # "undef" /\ ~ParseInt(stored).nan THEN ParseInt(stored).n
     ELSE IF envValue.t # "undef" /\ ~ParseInt(envValue).nan THEN ParseInt(envValue).n
     ELSE 5

\* C4: the interval is an integer within [1, 60]; a configured value below 1
\* behaves as 1, one above 60 as 60.
C4_IntervalClamped ==
  pout # <<>> =>
    LET v == ConfiguredInterval(pin.envValue, pin.settingsRaw) IN
    /\ pout[1] \in 1..60
    /\ pout[1] = (IF v < 1 THEN 1 ELSE IF v > 60 THEN 60 ELSE v)

\* what one run builds from one fetched catalog
WholeSnapshot(raw) ==
  raw.t # "null" =>
    /\ raw.t = "json"
    /\ LET d == JsonParse(raw) IN
       /\ ~d.isNull
       /\ d.hasFreeModels
       /\ d.timestamp.t = "iso"
       /\ d.allModels \in Catalogs
       /\ d.totalModels = Len(d.allModels)
       /\ d.freeModels = SelectSeq(d.allModels, IsFreeModel)

\* C5: whatever the interleaving, the value under models_data (the latest and
\* the one a lagging read returns) is one run's whole snapshot: freeModels is
\* the order-preserving free subsequence of allModels, totalModels its length.
C5_SnapshotWhole == WholeSnapshot(kv.models_data) /\ WholeSnapshot(kvOld.models_data)

\* two overlapping runs have both written their snapshot, of different content
C5_Witness ==
  /\ run["p1"].pc = "m_put_update"
  /\ run["p2"].pc = "m_put_update"
  /\ run["p1"].data.allModels # run["p2"].data.allModels

\* C6: a run whose catalog fetch failed (error status, network error, missing
\* or empty list) writes neither models_data nor last_update.
C6_FailedFetchWritesNothing ==
  \A p \in Procs :
    run[p].fetchFailed =>
      /\ run[p].writes \cap {"models_data", "last_update"} = {}
      /\ kv.models_data = run[p].before.models_data
      /\ kv.last_update = run[p].before.last_update

\* a 429 on a populated store
C6_Witness ==
  \E p \in Procs :
    /\ run[p].pc = "done"
    /\ run[p].fetchFailed
    /\ run[p].error = "OpenRouter API error: 429"
    /\ kv.models_data.t = "json"
    /\ kv.last_update.t = "iso"

\* C7: a run whose fetch or store failed ends with the response
\* {success: false, error: <the underlying message>}.
C7_FailureYieldsErrorResult ==
  \A p \in Procs :
    (run[p].pc = "done" /\ (run[p].fetchFailed \/ run[p].storeFailed))
      => run[p].result = ErrorResponse(run[p].error)

\* C8: a run that finds no previous snapshot (or one without freeModels)
\* computes no diff and sends no change notification; it persists the new
\* snapshot and reports success unless a put throws.
C8_ColdStart ==
  \A p \in Procs :
    LET r == run[p] IN
    (r.pc = "done" /\ ~r.data.isNull
     /\ (r.previousData.isNull \/ ~r.previousData.hasFreeModels))
      => /\ ~r.diffed
         /\ r.added = <<>>
         /\ r.removed = <<>>
         /\ \A i \in 1..Len(r.notifs) : r.notifs[i].category # "update"
         /\ ~r.storeFailed =>
              /\ r.result = SuccessResponse(Len(r.models), Len(r.data.freeModels))
              /\ {"models_data", "last_update"} \subseteq r.writes
              /\ kv.models_data = JsonStringify(r.data)
              /\ r.notifs = <<>>

\* a first run that found free entries
C8_Witness ==
  \E p \in Procs :
    /\ run[p].pc = "done"
    /\ run[p].before.models_data.t = "null"
    /\ run[p].previousData.isNull
    /\ run[p].result.success
    /\ run[p].result.freeModels > 0
    /\ env.BARK_API_URL # ""

\* C9: added is the entries of current whose id is no id of previous, removed
\* the entries of previous whose id is no id of current; added shares no id
\* with previous and lies within current; equal inputs give two empty lists.
C9_DiffById ==
  pout # <<>> =>
    LET added == pout[1].added
        removed == pout[1].removed
    IN /\ Occ(added) = {k \in Occ(pin.current) : Items[k].id \notin Ids(pin.previous)}
       /\ Occ(removed) = {k \in Occ(pin.previous) : Items[k].id \notin Ids(pin.current)}
       /\ Ids(added) \cap Ids(pin.previous) = {}
       /\ Occ(added) \subseteq Occ(pin.current)
       /\ pin.previous = pin.current => (added = <<>> /\ removed = <<>>)

\* one entry added, one removed, one id on both sides
C9_Witness ==
  /\ pout # <<>>
  /\ pout[1].added # <<>>
  /\ pout[1].removed # <<>>
  /\ Ids(pin.previous) \cap Ids(pin.current) # {}

UpdateCount(r) == Cardinality({i \in 1..Len(r.notifs) : r.notifs[i].category = "update"})

TargetConfigured ==
  \/ env.BARK_API_URL # ""
  \/ /\ kv.app_settings.t = "json"
     /\ ~JsonParse(kv.app_settings).isNull
     /\ JsonParse(kv.app_settings).barkBaseUrl # ""

\* storeModelsData has returned
ReachedComparison(r) == "last_update" \in r.writes

C11_FailedDeliveryKeepsStore ==
  \A p \in Procs :
    LET r == run[p] IN
    r.notifyFailed =>
      /\ kv.models_data = JsonStringify(r.data)
      /\ kv.last_update = r.data.timestamp
      /\ UpdateCount(r) = 1

\* the delivery failed over a store that held an older snapshot
C11_Witness ==
  \E p \in Procs :
    /\ run[p].pc = "done"
    /\ run[p].notifyFailed
    /\ run[p].before.models_data.t = "json"
    /\ run[p].before.models_data # kv.models_data

\* C12: a run whose snapshot was fetched and persisted and whose change
\* notification could not be delivered still ends with the response
\* {success: true, totalModels, freeModels}; it neither fails nor rejects.
C12_NotificationFailureSwallowed ==
  \A p \in Procs :
    LET r == run[p] IN
    (r.pc = "done" /\ r.notifyFailed)
      => r.result = SuccessResponse(Len(r.models), Len(r.data.freeModels))

\* C13: a scheduled invocation never ends by throwing: whatever failed (a KV
\* read or write, the catalog fetch, a notification, the error notification
\* of the run's own catch block), scheduled() has returned once it is done.
C13_ScheduledNeverThrows ==
  \A p \in Procs :
    LET r == run[p] IN
    r.kind = "scheduled" =>
      /\ r.handler \in {"running", "returned"}
      /\ r.pc = "done" => r.handler = "returned"

\* runMonitoring rejected inside scheduled() because the error notification
\* failed, and scheduled() returned
C13_Witness ==
  \E p \in Procs :
    /\ run[p].kind = "scheduled"
    /\ run[p].pc = "done"
    /\ run[p].result.t = "rejected"
    /\ run[p].fetchFailed
    /\ run[p].handler = "returned"

\* C14: within one run the fetch precedes the diff, the diff precedes the
\* write of the new snapshot, and the change notification follows the
\* completed persist.
C14_CausalOrder ==
  \A p \in Procs :
    LET r == run[p] IN
    /\ r.diffed => r.fetches = 1
    /\ ("models_data" \in r.writes /\ ~r.previousData.isNull /\ r.previousData.hasFreeModels)
         => r.diffed
    /\ UpdateCount(r) > 0 => {"models_data", "last_update"} \subseteq r.writes

\* C15: a run whose load of the previous snapshot failed (the read threw, or
\* the stored text does not parse) goes on as if there were none: it sends no
\* change notification and, unless a put throws, persists the new snapshot
\* and answers success: true.
C15_LoadFailureDegrades ==
  /\ PreviousData(Garbage) = NoPrevious
  /\ \A p \in Procs :
       LET r == run[p] IN
       r.loadFailed =>
         /\ r.previousData = NoPrevious
         /\ ~r.diffed
         /\ UpdateCount(r) = 0
         /\ (r.pc = "done" /\ ~r.storeFailed) =>
              /\ r.result = SuccessResponse(Len(r.models), Len(r.data.freeModels))
              /\ {"models_data", "last_update"} \subseteq r.writes
              /\ kv.models_data = JsonStringify(r.data)
              /\ kv.last_update = r.data.timestamp
              /\ r.notifs = <<>>

\* the load failed over a stored snapshot whose free ids differ from the new
\* ones, with a target configured
C15_Witness ==
  \E p \in Procs :
    /\ run[p].pc = "done"
    /\ run[p].loadFailed
    /\ run[p].result.success
    /\ run[p].before.models_data.t = "json"
    /\ Ids(JsonParse(run[p].before.models_data).freeModels) # Ids(run[p].data.freeModels)
    /\ TargetConfigured

ErrorCount(r) == Cardinality({i \in 1..Len(r.notifs) : r.notifs[i].category = "error"})

\* C16: a finished run whose catalog fetch failed has attempted exactly one
\* 'error' notification when a target is configured (BARK_API_URL or the
\* stored barkBaseUrl) and none when no target is configured.
C16_ErrorNotificationOnFetchFailure ==
  \A p \in Procs :
    LET r == run[p] IN
    (r.pc = "done" /\ r.fetchFailed)
      => ErrorCount(r) = (IF TargetConfigured THEN 1 ELSE 0)

\* the run has loaded the previous snapshot
Loaded(r) == ~r.data.isNull /\ ~r.loadFailed

\* C17: with one run at a time, a load of the store after a run's save
\* returns that run's snapshot (timestamp, total count, free entries, all
\* entries), hence no entry that only the snapshot before it had; and the
\* load of a run returns what the store held when the run began.
C17_SaveLoadRoundTrip ==
  \A p \in Procs :
    LET r == run[p] IN
    /\ "models_data" \in r.writes =>
         /\ JsonParses(kv.models_data)
         /\ PreviousData(kv.models_data) = r.data
         /\ Occ(PreviousData(kv.models_data).allModels) = Occ(r.models)
    /\ Loaded(r) => r.previousData = PreviousData(r.before.models_data)

\* a run saved, over a snapshot with other entries, a catalog whose prices are
\* a number, a malformed string and a missing field, and loaded the snapshot
\* the run before it had saved
C17_Witness ==
  \E p \in Procs :
    /\ "models_data" \in run[p].writes
    /\ Loaded(run[p])
    /\ ~run[p].previousData.isNull
    /\ Occ(run[p].previousData.allModels) \ Occ(run[p].models) # {}
    /\ {7, 8} \subseteq Occ(run[p].models)

HasFreeSuffix(id) == Len(id) >= 5 /\ SubSeq(id, Len(id) - 4, Len(id)) = <<":", "f", "r", "e", "e">>

\* a price that stands for zero: a missing or empty field, the number 0, or
\* a numeral of value 0
ZeroPrice(v) ==
  v \in {Undef, Str(<<>>), Num(0), Str(<<"0">>), Str(<<"0", ".", "0">>), Str(<<"-", "0">>)}

\* a price text that is no numeral
NonNumeric(v) == v.t = "str" /\ Len(v.s) > 0 /\ ~IsDigit(v.s[1]) /\ v.s[1] \notin {"-", "+", ".", " "}

C19_MalformedPriceIsZero ==
  pout # <<>> =>
    pout[1].backend =
      (\/ HasFreeSuffix(pin.id)
       \/ /\ pin.pricing.present
          /\ ZeroPrice(pin.pricing.prompt) \/ NonNumeric(pin.pricing.prompt)
          /\ ZeroPrice(pin.pricing.completion) \/ NonNumeric(pin.pricing.completion))

\* C20: the predicate of the page script and the one of the monitor agree on
\* every entry, so the count the page computes over allModels is the length
\* of the stored freeModels.
C20_FrontendAgrees ==
  /\ pout # <<>> => pout[1].frontend = pout[1].backend
  /\ \A models \in Catalogs :
       LET Shown(k) == isFreeModel(Items[k])
       IN Len(SelectSeq(models, Shown)) = Len(identifyFreeModels(models))

\* both predicates take an entry with the suffix and nonzero prices as free
C20_Witness ==
  /\ pout # <<>>
  /\ pout[1].frontend
  /\ pout[1].backend
  /\ HasFreeSuffix(pin.id)
  /\ pin.pricing = Pricing(Str(<<"0", ".", "5">>), Num(1))

\* C21: last_update is written only by a run that ends with success: true: a
\* finished run that answered success: false or rejected has not written
\* last_update and leaves the key as it found it.
C21_LastUpdateOnlyOnSuccess ==
  \A p \in Procs :
    LET r == run[p] IN
    (r.pc = "done" /\ r.result.t \in {"response", "rejected"} /\ ~r.result.success)
      => /\ "last_update" \notin r.writes
         /\ kv.last_update = r.before.last_update

\* C22: a step of a read endpoint (getModelsApi, getFreeModelsApi, getStatus)
\* leaves every key of the store as it was; and when it answers while no
\* snapshot is stored, the two model endpoints answer 404 and the status
\* endpoint reports lastUpdate 'Never' and hasData false (an endpoint whose
\* own store read threw answers 500 instead).
C22_ReadEndpointsFrame ==
  [][(pin' # pin \/ pout' # pout) =>
       /\ kv' = kv
       /\ kvOld' = kvOld
       /\ (pout' # pout /\ kv.models_data = NullVal /\ pout'.status # 500) =>
            /\ pout'.op \in {"models", "free-models"} => pout'.status = 404
            /\ pout'.op = "status" => (pout'.lastUpdate = Never /\ ~pout'.hasData)]_vars

\* a status answer given to an empty store after a run was started in between
\* the requests, and the store still holds what the run left
C22_Witness ==
  /\ pout.op = "status"
  /\ pout.status = 200
  /\ pout.lastUpdate = Never
  /\ ~pout.hasData
  /\ kv.models_data = NullVal
  /\ starts > 0
  /\ kv.last_monitor_trigger # NullVal

\* every invocation started so far still holds its execution context
AllPresent == starts = Cardinality({p \in Procs : run[p].pc # "idle"})

Saved(key) == {p \in Procs : key \in run[p].writes}

UsableTimes(values) == {DateParse(v).n : v \in {w \in values : w.t = "iso"}}

\* C24: the throttle tolerates an absent or unparseable last_monitor_trigger
\* or last_update: such a value is ignored, the usable values alone decide
\* (the trigger is skipped exactly when the latest of them is less than one
\* interval old), and with no usable value the trigger is accepted as a first
\* run.
C24_ThrottleTolerant ==
  pout # <<>> =>
    LET usable == UsableTimes({pin.lastTriggerRaw, pin.lastUpdateRaw})
        skipped == pout[1].pc = "done" /\ pout[1].result = Skipped
        accepted == pout[1].pc = "s_put"
    IN /\ skipped # accepted
       /\ usable = {} => accepted
       /\ usable # {} =>
            (skipped <=> pin.now - SetMax(usable) < pin.intervalMinutes * 60000)

\* an unparseable trigger value next to a recent last_update: skipped on the
\* strength of last_update alone
C24_Witness ==
  /\ pout # <<>>
  /\ pin.lastTriggerRaw = Garbage
  /\ pin.lastUpdateRaw.t = "iso"
  /\ pout[1].result = Skipped

\* C25: every scheduled trigger computes its interval from the settings as
\* they are stored when it reads them: the stored monitorInterval when it is
\* present and parses to a number, else MONITOR_INTERVAL_MINUTES when it
\* parses, else 5 (within [1, 60]); so the trigger that follows a settings
\* update runs under the updated value.
C25_HotReload ==
  [][\A p \in Procs :
       (run[p].pc = "s_settings" /\ run'[p].pc = "s_throttle") =>
         run'[p].intervalMinutes =
           Min2(Max2(ConfiguredInterval(env.MONITOR_INTERVAL_MINUTES, kv.app_settings), 1), 60)]_vars

\* sub is src with some entries left out, the others in their places
StableIn(sub, src) ==
  \E f \in [1..Len(sub) -> 1..Len(src)] :
    /\ \A i \in 1..Len(sub) : sub[i] = src[f[i]]
    /\ \A i, j \in 1..Len(sub) : i < j => f[i] < f[j]

\* how many entries of seq carry an id outside ids
CountOutside(seq, ids) == Cardinality({i \in 1..Len(seq) : Items[seq[i]].id \notin ids})

\* C26: the output order is stable: added keeps the order of current and
\* removed the order of previous, nothing left out or repeated; and the
\* comparison is by id only: an entry whose id occurs on both sides is in
\* neither list, whatever its other fields.
C26_StableOrderIdOnly ==
  pout # <<>> =>
    LET added == pout[1].added
        removed == pout[1].removed
    IN /\ StableIn(added, pin.current)
       /\ StableIn(removed, pin.previous)
       /\ Len(added) = CountOutside(pin.current, Ids(pin.previous))
       /\ Len(removed) = CountOutside(pin.previous, Ids(pin.current))
       /\ \A k \in Occ(pin.previous) \cup Occ(pin.current) :
            Items[k].id \in Ids(pin.previous) \cap Ids(pin.current) =>
              k \notin Occ(added) \cup Occ(removed)

\* an id on both sides with different fields, next to one entry added and
\* one removed
C26_Witness ==
  /\ pout # <<>>
  /\ \E i \in 1..Len(pin.previous), j \in 1..Len(pin.current) :
       /\ Items[pin.previous[i]].id = Items[pin.current[j]].id
       /\ pin.previous[i] # pin.current[j]
  /\ Len(pout[1].added) = 1
  /\ Len(pout[1].removed) = 1

\* the names a clause of the message lists for a list of entries: the name
\* of each, or its id when it has no name
ShownNames(models) ==
  [i \in 1..Len(models) |->
     IF Items[models[i]].name # <<>> THEN Items[models[i]].name ELSE Items[models[i]].id]

Clauses(parts, label) == {i \in 1..Len(parts) : parts[i].label = label}

\* C27: the body of a change notification has an 'added' clause exactly when
\* some entry of the new list has an id the previous list lacks, and a
\* 'removed' clause exactly when some entry of the previous list has an id the
\* new one lacks; each clause lists the display names (name, or id without a
\* name) of those entries and of no others, the added clause first.  From
\* {a:free, b:free} to {b:free, c:free} the message names C as added and A as
\* removed and does not mention b:free.
C27_MessageClauses ==
  pout # <<>> =>
    LET parts == pout[1].parts
        NewId(k) == Items[k].id \notin Ids(pin.previous)
        GoneId(k) == Items[k].id \notin Ids(pin.current)
        gained == SelectSeq(pin.current, NewId)
        lost == SelectSeq(pin.previous, GoneId)
    IN /\ Clauses(parts, "added") \cup Clauses(parts, "removed") = 1..Len(parts)
       /\ Clauses(parts, "added") = (IF gained # <<>> THEN {1} ELSE {})
       /\ Cardinality(Clauses(parts, "removed")) = (IF lost # <<>> THEN 1 ELSE 0)
       /\ \A i \in Clauses(parts, "added") : parts[i].names = ShownNames(gained)
       /\ \A i \in Clauses(parts, "removed") : parts[i].names = ShownNames(lost)
       /\ (pin.previous = <<1, 2>> /\ pin.current = <<2, 3>>) =>
            parts = <<[label |-> "added", names |-> <<<<"C">>>>],
                      [label |-> "removed", names |-> <<<<"A">>>>]>>

\* the example of the claim, and its message of two clauses
C27_Witness ==
  /\ pout # <<>>
  /\ pin.previous = <<1, 2>>
  /\ pin.current = <<2, 3>>
  /\ Len(pout[1].parts) = 2

\* C28: a scheduled trigger that observes a last_monitor_trigger written at
\* time t, with no last_update from the run accepted then (none at all, or an
\* older one: that run failed), is skipped when it comes before t + interval:
\* it fetches nothing and writes nothing.
C28_FailedRunCounts ==
  \A p \in Procs :
    LET r == run[p]
        t == DateParse(r.seenTrigger).n
    IN (/\ PastThrottle(r)
        /\ r.seenTrigger.t = "iso"
        /\ r.seenUpdate.t = "iso" => DateParse(r.seenUpdate).n < t
        /\ r.now < t + r.intervalMinutes * 60000)
       => /\ r.pc = "done"
          /\ r.result = Skipped
          /\ r.fetches = 0
          /\ r.writes = {}

\* the trigger after a failed scheduled run: the store holds the trigger of
\* that run and no snapshot, and the trigger is skipped
C28_Witness ==
  \E p \in Procs :
    /\ PastThrottle(run[p])
    /\ run[p].seenTrigger.t = "iso"
    /\ run[p].seenUpdate = NullVal
    /\ kv.models_data = NullVal
    /\ run[p].now > DateParse(run[p].seenTrigger).n
    /\ run[p].result = Skipped

\* the run of p has replaced a stored snapshot by one with another set of
\* free ids
ReplacedFreeIds(p) ==
  /\ "models_data" \in run[p].writes
  /\ run[p].before.models_data.t = "json"
  /\ Ids(JsonParse(run[p].before.models_data).freeModels) # Ids(run[p].data.freeModels)

\* the change notification the run of p has requested names exactly the
\* difference between the snapshot it replaced and its own
DescribesReplacement(p) ==
  LET replaced == JsonParse(run[p].before.models_data).freeModels
      current == run[p].data.freeModels
      NewId(k) == Items[k].id \notin Ids(replaced)
      GoneId(k) == Items[k].id \notin Ids(current)
  IN /\ UpdateCount(run[p]) = 1
     /\ \A n \in 1..Len(run[p].notifs) :
          run[p].notifs[n].category = "update" =>
            LET parts == run[p].notifs[n].parts IN
            /\ \A i \in Clauses(parts, "added") :
                 parts[i].names = ShownNames(SelectSeq(current, NewId))
            /\ \A i \in Clauses(parts, "removed") :
                 parts[i].names = ShownNames(SelectSeq(replaced, GoneId))
            /\ Clauses(parts, "added") # {} <=> SelectSeq(current, NewId) # <<>>
            /\ Clauses(parts, "removed") # {} <=> SelectSeq(replaced, GoneId) # <<>>

\* C29 as stated: a finished run that replaced the snapshot by one with
\* another free-id set, with a notification target configured, has requested
\* a change notification describing the difference, also when its load of the
\* previous snapshot failed or its write of last_update failed.
C29_NoChangeLost ==
  \A p \in Procs :
    (run[p].pc = "done" /\ ReplacedFreeIds(p) /\ TargetConfigured /\ ~run[p].settingsFailed)
      => DescribesReplacement(p)

\* C29 (amended): a finished run that loaded the previous snapshot, replaced
\* it by one with another free-id set and wrote last_update, with a
\* notification target configured and readable, has requested exactly one
\* change notification, which describes the difference.
C29_ChangeNotifiedAfterSave ==
  \A p \in Procs :
    (/\ run[p].pc = "done"
     /\ ReplacedFreeIds(p)
     /\ TargetConfigured
     /\ ~run[p].settingsFailed
     /\ ~run[p].loadFailed
     /\ "last_update" \in run[p].writes)
      => DescribesReplacement(p)

\* such a run, its notification requested
C29_Witness ==
  \E p \in Procs :
    /\ run[p].pc = "done"
    /\ ReplacedFreeIds(p)
    /\ TargetConfigured
    /\ ~run[p].loadFailed
    /\ "last_update" \in run[p].writes
    /\ UpdateCount(run[p]) = 1

\* no invocation is between the start and the end of its handler
Quiescent == \A p \in Procs : run[p].pc \in {"idle", "done"}

\* last_update is the timestamp of the stored snapshot
TwoKeysAgree ==
  kv.models_data # NullVal => kv.last_update = JsonParse(kv.models_data).timestamp

\* C30 as stated: once every run, sequential or overlapping, has completed its
\* save without error, last_update equals the timestamp of the stored
\* models_data.
C30_TwoKeyConsistency ==
  (Quiescent /\ \A p \in Procs : ~run[p].storeFailed) => TwoKeysAgree

\* C30 (amended): a save writes models_data first and last_update second, the
\* second with the timestamp of the first; whenever the latest put of
\* models_data and the latest put of last_update were made by the same run,
\* last_update equals the timestamp of the stored models_data.
C30_SameRunConsistency ==
  /\ \A p \in Procs :
       /\ "last_update" \in run[p].writes => "models_data" \in run[p].writes
       /\ (run[p].id # 0 /\ run[p].id = lastPut.last_update) =>
            kv.last_update = run[p].data.timestamp
  /\ lastPut.models_data = lastPut.last_update => TwoKeysAgree

\* two runs with snapshots of different times have both completed their
\* saves, and one of them made the latest put of both keys
C30_Witness ==
  /\ \A p \in Procs :
       /\ run[p].pc = "done"
       /\ {"models_data", "last_update"} \subseteq run[p].writes
  /\ run["p1"].data.timestamp # run["p2"].data.timestamp
  /\ lastPut.models_data = lastPut.last_update
  /\ kv.last_update = JsonParse(kv.models_data).timestamp

\* the cron trigger has invoked scheduled()
CronFired == \E p \in Procs : run[p].pc = "s_settings"

\* scheduled() has passed the throttle and written the trigger key
TriggerAccepted == \E p \in Procs : run[p].accepted /\ run[p].pc = "m_fetch"

NoManualRun == \A p \in Procs : run[p].kind # "manual"

C32_ManualBypassesThrottle ==
  \A p \in Procs :
    LET r == run[p] IN
    /\ r.kind = "manual" =>
         /\ r.pc = "m_fetch" \/ r.fetches = 1
         /\ r.result.t # "skipped"
         /\ r.intervalMinutes = 0
         /\ r.now = 0
         /\ r.seenTrigger = NullVal /\ r.seenUpdate = NullVal
         /\ "last_monitor_trigger" \notin r.writes
         /\ kv.last_monitor_trigger = r.before.last_monitor_trigger
    /\ "last_monitor_trigger" \in r.writes =>
         /\ r.kind = "scheduled"
         /\ r.accepted
         /\ r.intervalMinutes \in MinIntervalMinutes..MaxIntervalMinutes

\* a manual run stored its snapshot at a time when a scheduled trigger would
\* have been skipped on the trigger time it found
C32_Witness ==
  \E p \in Procs :
    /\ run[p].kind = "manual"
    /\ run[p].result.success
    /\ run[p].before.last_monitor_trigger.t = "iso"
    /\ SkipRun(DateParse(run[p].data.timestamp).n,
               LastRunTimestamp(run[p].before.last_monitor_trigger, run[p].before.last_update),
               IntervalMs(IntervalMinutes(env.MONITOR_INTERVAL_MINUTES, kv.app_settings)))

\* C33: a manual run that stored its snapshot has written its time t under
\* last_update and left last_monitor_trigger alone, and a scheduled trigger
\* that observes a last_update less than one interval old is skipped, also
\* when no trigger time was ever written.
C33_ManualRunPostpones ==
  \A p \in Procs :
    LET r == run[p] IN
    /\ (r.kind = "manual" /\ "last_update" \in r.writes) =>
         /\ kv.last_update = r.data.timestamp
         /\ kv.last_update.t = "iso"
         /\ kv.last_monitor_trigger = r.before.last_monitor_trigger
    /\ (PastThrottle(r) /\ r.seenUpdate.t = "iso"
        /\ r.now < DateParse(r.seenUpdate).n + r.intervalMinutes * 60000)
         => /\ r.result = Skipped
            /\ r.fetches = 0
            /\ r.writes = {}

\* a scheduled trigger skipped on the last_update of a manual run: no
\* scheduled run has happened, and time has advanced since the manual run
C33_Witness ==
  \E p \in Procs :
    /\ run[p].result = Skipped
    /\ run[p].seenTrigger = NullVal
    /\ run[p].seenUpdate.t = "iso"
    /\ run[p].now > DateParse(run[p].seenUpdate).n
    /\ lastAcceptT = 0

\* C34: a run reads the previous snapshot before it writes its own: until the
\* read has returned the run has written neither snapshot key; with one run at
\* a time the baseline of the diff is what the store held when the run began,
\* whatever the run has written since; and a run that fetched the catalog its baseline
\* holds finds nothing added, nothing removed, sends no notification and
\* succeeds.
C34_BaselineIsPrecedingSnapshot ==
  \A p \in Procs :
    LET r == run[p] IN
    /\ r.pc \in {"m_fetch", "m_prev"} => r.writes \cap {"models_data", "last_update"} = {}
    /\ "models_data" \in r.writes => ~r.data.isNull
    /\ (Loaded(r) /\ "models_data" \in r.writes) =>
         /\ r.previousData = PreviousData(r.before.models_data)
         /\ kv.models_data = JsonStringify(r.data)
    /\ (r.pc = "done" /\ Loaded(r) /\ ReachedComparison(r) /\ HasBaseline(r.previousData)
        /\ r.previousData.allModels = r.models) =>
         /\ r.diffed
         /\ r.added = <<>>
         /\ r.removed = <<>>
         /\ r.notifs = <<>>
         /\ r.result = SuccessResponse(Len(r.models), Len(r.data.freeModels))

\* the second run over an unchanged catalog, with a notification target
\* configured: compared with the first run's snapshot, nothing sent
C34_Witness ==
  \E p \in Procs :
    /\ run[p].pc = "done"
    /\ run[p].diffed
    /\ run[p].previousData.allModels = run[p].models
    /\ run[p].previousData.timestamp # run[p].data.timestamp
    /\ run[p].notifs = <<>>
    /\ TargetConfigured

\* the invocation has constructed its ModelMonitor
HasMonitor(r) == r.kind \in {"manual", "test"} \/ (r.kind = "scheduled" /\ r.accepted)

\* C35: outside the request of sendBarkNotification that a swap encloses, the
\* monitor's barkUrl is the value the constructor gave it (BARK_API_URL),
\* whether the call returned or threw; so a notification sent after a swap,
\* the error notification of the catch block, goes to that value and never
\* to a URL taken from the stored settings.
C35_BarkUrlRestored ==
  \A p \in Procs :
    LET r == run[p] IN
    /\ (HasMonitor(r) /\ r.pc \notin {"n_send", "t_send"}) => r.barkUrl = env.BARK_API_URL
    /\ r.pc \in {"n_send", "t_send"} => r.originalBarkUrl \in {env.BARK_API_URL, r.barkUrl}
    /\ r.pc = "t_send" => r.testOriginalBarkUrl = env.BARK_API_URL
    /\ \A i \in 1..Len(r.notifs) :
         r.notifs[i].category = "error" => r.notifs[i].url = env.BARK_API_URL

\* a notification (of a change, or of the test route) went to the stored URL
\* and failed, and the field is back at the unset environment value
C35_Witness ==
  \E p \in Procs :
    /\ run[p].pc = "done"
    /\ run[p].notifyFailed
    /\ Len(run[p].notifs) = 1
    /\ run[p].notifs[1].url = StoredBarkUrl
    /\ run[p].barkUrl = ""
    /\ env.BARK_API_URL = ""

\* the target of a change notification issued now
NotificationTarget ==
  IF env.BARK_API_URL # "" THEN env.BARK_API_URL ELSE StoredBark(kv.app_settings)

\* C36: the request of a change notification is issued to BARK_API_URL when
\* that is set and otherwise to the barkBaseUrl of app_settings as stored when
\* sendChangeNotification reads it; the notification made is the one to that
\* URL; and a run with a real difference that ends without a request (its
\* settings read did not throw) had neither value to go by.
C36_TargetResolution ==
  [][\A p \in Procs :
       LET r == run[p]
           after == run'[p]
       IN /\ (r.pc \in {"m_put_update", "n_settings"} /\ after.pc = "n_send") =>
               /\ NotificationTarget # ""
               /\ after.barkUrl = NotificationTarget
          /\ (r.pc = "n_send" /\ after.pc # "n_send") =>
               /\ UpdateCount(after) = 1
               /\ after.notifs[Len(after.notifs)].category = "update"
               /\ after.notifs[Len(after.notifs)].url = r.barkUrl
          /\ (r.pc \in {"m_put_update", "n_settings"} /\ after.pc = "done"
              /\ after.result.success /\ HasChanges(after.added, after.removed)
              /\ ~after.settingsFailed) =>
               /\ NotificationTarget = ""
               /\ after.notifs = <<>>]_vars

\* with BARK_API_URL unset, a change notification went to a URL that the
\* settings endpoint stored in place of the one the deployment began with
C36_Witness ==
  \E p \in Procs :
    /\ env.BARK_API_URL = ""
    /\ UpdateCount(run[p]) = 1
    /\ run[p].notifs[1].url = EnvBarkUrl

\* a POST body as the claim admits it: the right auth value, monitorInterval
\* left out or within 1..60, barkBaseUrl left out or an https URL
AdmissibleBody(body) ==
  /\ body.authorized
  /\ body.monitorInterval.t = "undef"
     \/ (body.monitorInterval.t = "num"
         /\ body.monitorInterval.n \in MinIntervalMinutes..MaxIntervalMinutes)
  /\ body.barkBaseUrl = "" \/ body.barkBaseUrl \in HttpsUrls

\* C37: a POST to the settings endpoint gets past the three checks only with
\* an admissible body; app_settings changes only in the put of such a
\* request, answered with 200; and a step answered with 401 or 400 leaves the
\* whole store as it was.
C37_SettingsUpdateChecked ==
  [][/\ pin'.op = "settings" => AdmissibleBody(pin'.body)
     /\ kv'.app_settings # kv.app_settings =>
          /\ pin.op = "settings"
          /\ AdmissibleBody(pin.body)
          /\ pout'.status = 200
          /\ kv'.app_settings = JsonStringify(pin.settings)
     /\ (pout' # pout /\ pout'.status \in {400, 401}) => (kv' = kv /\ pin' = pin)]_vars

\* C38: the monitorInterval stored in app_settings, when the text parses and
\* the member is present, is a number within [1, 60], in the store and in
\* what a lagging read can return.
C38_StoredIntervalInRange ==
  \A store \in {kv, kvOld} :
    (store.app_settings.t = "json" /\ ~JsonParse(store.app_settings).isNull) =>
      LET stored == JsonParse(store.app_settings).monitorInterval IN
      stored.t = "undef"
      \/ (stored.t = "num" /\ stored.n \in MinIntervalMinutes..MaxIntervalMinutes)

\* the invocations of refresh() that have passed the guard and not returned
RefreshesInFlight == {i \in 1..Len(pin.calls) : pin.calls[i].pc # "returned"}

\* C39: at most one invocation of refresh() is past the guard at a time; an
\* invocation that found isRefreshing set has returned without a request to
\* /api/monitor/run, any other has made that request; and isRefreshing is set
\* exactly while an invocation is in flight, so it is clear again when that
\* one has returned, whatever the monitor call, the data reload and the
\* status reload came to.
C39_RefreshGuard ==
  /\ Cardinality(RefreshesInFlight) <= 1
  /\ pin.isRefreshing <=> RefreshesInFlight # {}
  /\ \A i \in 1..Len(pin.calls) :
       LET call == pin.calls[i] IN
       IF call.sawRefreshing
       THEN call.pc = "returned" /\ ~call.calledMonitor
       ELSE call.calledMonitor

\* a refresh whose three requests all failed has returned, an invocation made
\* meanwhile was turned away, and a later one is in flight again
C39_Witness ==
  \E i, j, k \in 1..Len(pin.calls) :
    /\ i < j /\ j < k
    /\ pin.calls[i].pc = "returned"
    /\ pin.calls[i].calledMonitor
    /\ ~pin.calls[i].refreshSuccess /\ ~pin.calls[i].dataLoaded /\ ~pin.calls[i].statusLoaded
    /\ pin.calls[j].sawRefreshing
    /\ pin.calls[k].pc = "monitor"

====
